---- MODULE Spec2Model ----
(***************************************************************************)
(* Model of the terminal session lifecycle manager of cli-buddy            *)
(* (class TerminalManager): the session store, the crash tracker, creation *)
(* with shell fallback, crash handling, delayed recovery, the request      *)
(* handlers and the process / timer callbacks; and of the TerminalSession  *)
(* component of the renderer: its command history, its recovery banner and *)
(* its demo mode.                                                          *)
(*                                                                         *)
(* Every handler is one atomic action (single-threaded event loop).  The   *)
(* handlers are written as operators on a record M that carries the        *)
(* mutable state through the handler's statements in order:                *)
(*   M.terminals, M.crashHistory, M.procs, M.timers  the manager's state   *)
(*   M.nextPid the next handle pty.spawn returns                           *)
(*   M.calls   the calls the handler made on process handles, sinks,       *)
(*             pty.spawn and setTimeout, in order                          *)
(*   M.threw   the exception in flight (NoErr when none)                   *)
(*   M.ret     the value returned by the innermost call                    *)
(***************************************************************************)
EXTENDS Integers, Sequences, FiniteSets, TLC

(* ---------------- program constants ---------------- *)
maxCrashesBeforeDisable == 5
crashTimeWindow == 60000
RecoveryDelay == 1000
DefaultCols == 80
DefaultRows == 24
NullCode == -2

(* ---------------- bounds of the model ---------------- *)
(* Spec: processes spawned for the session, 'error' events per process     *)
MaxProcs == 4
MaxErrs == 1
(* SpecRequests: sessions created, processes spawned                       *)
MaxSessions == 2
MaxSpawns == 3
(* SpecCreate: creation requests                                           *)
MaxCreates == 2
(* SpecCrashTracker: calls of recordCrash                                  *)
MaxCrashes == 6

(* the instants at which the clock is read: one recovery delay after the   *)
(* start, one crash window after the start, and one delay after that, so   *)
(* that two readings can lie less than, exactly, or more than one window   *)
(* apart; the clock also stops at every instant at which a timer is due    *)
TimePoints == {RecoveryDelay, crashTimeWindow, crashTimeWindow + RecoveryDelay}
Sinks == {1}
NoSender == 0
Platforms == {"win32", "darwin", "linux", "freebsd"}
ExitCodes == {0, 1, NullCode}
WriteData == {"echo hi\n", "ls\r"}
ResizeDims == {<<120, 40>>}
SpawnOutcomes == {"ok", "EACCES", "ENOENT", ""}

VARIABLES
  platform,       \* os.platform() of the host
  terminals,      \* this.terminals: id -> record
  crashHistory,   \* this.crashHistory: id -> sequence of timestamps
  procs,          \* the pty handles that are held by a record, have listeners
                  \* or are still running: pid -> handle state
  nextPid,        \* the handle the next successful pty.spawn returns
  timers,         \* pending setTimeout callbacks, in the order they fire
  now,            \* Date.now()
  nextId,         \* the id the next randomUUID() returns
  sinkDestroyed,  \* sender.isDestroyed() of every sink
  calls,          \* calls made by the last handler, in order
  result,         \* the last handler run and what it returned or threw
  loopDisabled,   \* history: the ids the crash-loop breaker has disabled
  crashLog,       \* history: id -> every timestamp recordCrash was called at
  \* the TerminalSession component of the renderer
  apiAvailable,   \* window.electronAPI?.terminal is there
  terminal,       \* this.terminal: "null" before mounted(), "xterm" while it
                  \* holds the instance, "disposed" (null again) after
                  \* beforeUnmount()
  terminalId,     \* this.terminalId (0: null)
  commandHistory, \* this.commandHistory: sequence of commands
  historyIndex,   \* this.historyIndex, counted from 0 as in the code
  currentCommand, \* this.currentCommand: sequence of characters
  recoveryStatus, \* this.recoveryStatus ("": null)
  errorMessage,   \* this.errorMessage ("": null)
  isInDemoMode,   \* this.isInDemoMode
  pushed          \* history: the commands pushed to commandHistory so far

(* the state of the TerminalManager and of its host *)
manager == <<platform, terminals, crashHistory, procs, nextPid, timers, now,
             nextId, sinkDestroyed, loopDisabled, crashLog>>

(* the state of the TerminalSession component *)
component == <<apiAvailable, terminal, terminalId, commandHistory, historyIndex,
               currentCommand, recoveryStatus, errorMessage, isInDemoMode,
               pushed>>

vars == <<platform, terminals, crashHistory, procs, nextPid, timers, now, nextId,
          sinkDestroyed, calls, result, loopDisabled, crashLog, component>>

(* ---------------- values ---------------- *)
Err(text, id, detail) == [text |-> text, id |-> id, detail |-> detail]
NoErr == Err("", 0, <<>>)

Call(op, pid, sink, id, ev, s, a, b) ==
  [op |-> op, pid |-> pid, sink |-> sink, id |-> id, ev |-> ev, s |-> s,
   a |-> a, b |-> b]

(* the arguments a handler was run with *)
Arg(id, pid, code, data, options) ==
  [id |-> id, pid |-> pid, code |-> code, data |-> data, options |-> options]

(* a handler run: its name and arguments, and what it returned (kind        *)
(* "return": {success, id, error}; "callback": nothing) or threw ("uncaught") *)
Result(op, arg, kind, success, id, error) ==
  [op |-> op, arg |-> arg, kind |-> kind, success |-> success, id |-> id,
   error |-> error]

IPC_DATA == "terminal:data"
IPC_EXIT == "terminal:exit"
IPC_RECOVERY == "terminal:recovery"

SpawnError(shell, outcome) ==
  [code |-> outcome,
   message |-> IF outcome = "" THEN <<>> ELSE <<"spawn", shell, outcome>>]

Log(M, c) == [M EXCEPT !.calls = Append(@, c)]

Has(f, k) == k \in DOMAIN f
Remove(f, k) == [x \in DOMAIN f \ {k} |-> f[x]]
Put(f, k, v) == [x \in DOMAIN f \cup {k} |-> IF x = k THEN v ELSE f[x]]

(* faulty variant of detectShell: the platform is not looked at *)
alwaysBash(p) == "/bin/bash"

(* ---------------- Shell Resolver ---------------- *)
detectShell(p) ==
  CASE p = "win32" -> "powershell.exe"
    [] p = "darwin" -> "/bin/zsh"
    [] OTHER -> "/bin/bash"

getShellFallbacks(p) ==
  CASE p = "win32" -> <<"powershell.exe", "cmd.exe">>
    [] p = "darwin" -> <<"/bin/zsh", "/bin/bash", "/bin/sh">>
    [] OTHER -> <<"/bin/bash", "/bin/sh", "/bin/dash">>

(* ---------------- process handles (node-pty) ---------------- *)
(* pty.spawn returning a handle: a new running process without listeners *)
spawn(M, id, config) ==
  LET pid == M.nextPid
      p == [state |-> "running", owner |-> id, crashL |-> FALSE,
            ipcL |-> NoSender, errs |-> 0, config |-> config]
  IN [Log(M, Call("spawn", pid, 0, id, "ok", config.shell, config.cols,
                  config.rows))
        EXCEPT !.procs = Put(M.procs, pid, p), !.nextPid = pid + 1, !.ret = pid]

(* pty.spawn throwing *)
spawnFails(M, id, config, outcome) ==
  [Log(M, Call("spawn", 0, 0, id, outcome, config.shell, config.cols,
               config.rows))
     EXCEPT !.threw = Err("spawn", 0, SpawnError(config.shell, outcome).message)]

removeAllListeners(M, pid) ==
  [Log(M, Call("removeAllListeners", pid, 0, M.procs[pid].owner, "", "", 0, 0))
     EXCEPT !.procs[pid].crashL = FALSE, !.procs[pid].ipcL = NoSender]

(* faulty variant of kill: the process is left as it is *)
killNothing(M, pid, KT) ==
  Log(M, Call("kill", pid, 0, M.procs[pid].owner, "ok", "", 0, 0))

(* kill() of a handle; KT is the set of handles whose kill raises when the *)
(* process is already dead                                                  *)
kill(M, pid, KT) ==
  LET dead == M.procs[pid].state # "running"
      throws == dead /\ pid \in KT
  IN [Log(M, Call("kill", pid, 0, M.procs[pid].owner,
                  IF throws THEN "throws" ELSE "ok", "", 0, 0))
        EXCEPT !.procs[pid].state = IF dead THEN @ ELSE "killed",
               !.threw = IF throws THEN Err("kill", 0, <<>>) ELSE @]

(* faulty variant of safeSend: the sink is not asked whether it is destroyed *)
sendUnchecked(M, sender, ev, id, s, a) ==
  IF sender # NoSender
    THEN Log(M, Call("send", 0, sender, id, ev, s, a, 0))
    ELSE M

(* ---------------- Boundary: safeSend ---------------- *)
safeSend(M, sender, ev, id, s, a) ==
  IF sender # NoSender /\ ~sinkDestroyed[sender]
    THEN Log(M, Call("send", 0, sender, id, ev, s, a, 0))
    ELSE M

(* ---------------- Crash Tracker ---------------- *)
(* faulty variant of recordCrash: only the latest crash is kept *)
recordOnlyLast(M, id) ==
  [M EXCEPT !.crashHistory = Put(M.crashHistory, id, <<now>>),
            !.crashLog = Put(M.crashLog, id,
                             Append(IF Has(M.crashLog, id) THEN M.crashLog[id]
                                    ELSE <<>>, now))]

recordCrash(M, id) ==
  LET crashes == Append(IF Has(M.crashHistory, id) THEN M.crashHistory[id]
                        ELSE <<>>, now)
      cutoff == now - crashTimeWindow
      Recent(time) == time > cutoff
  IN [M EXCEPT !.crashHistory = Put(M.crashHistory, id,
                                    SelectSeq(crashes, Recent)),
               !.crashLog = Put(M.crashLog, id,
                                Append(IF Has(M.crashLog, id) THEN M.crashLog[id]
                                       ELSE <<>>, now))]

(* faulty variant of isInCrashLoop: one crash fewer is a crash loop *)
loopsOneEarly(M, id) ==
  LET crashes == IF Has(M.crashHistory, id) THEN M.crashHistory[id] ELSE <<>>
  IN Len(crashes) >= maxCrashesBeforeDisable - 1

isInCrashLoop(M, id) ==
  LET crashes == IF Has(M.crashHistory, id) THEN M.crashHistory[id] ELSE <<>>
  IN Len(crashes) >= maxCrashesBeforeDisable

(* ---------------- Session Lifecycle Manager ---------------- *)
setupCrashRecovery(M, id) ==
  IF ~Has(M.terminals, id) THEN M
  ELSE [M EXCEPT !.procs[M.terminals[id].process].crashL = TRUE]

(* a pending setTimeout callback: the id its closure captured and the     *)
(* instant it is due; cc, st and code keep, for the properties, the        *)
(* crashCount and status before the crash and the exit code that caused it *)
Timer(M, id, exitCode) ==
  [id |-> id, due |-> now + RecoveryDelay, cc |-> M.terminals[id].crashCount,
   st |-> M.terminals[id].status, code |-> exitCode]

(* faulty variant of handleProcessCrash: the session is marked crashed *)
markCrashed(M, id, exitCode) ==
  IF ~Has(M.terminals, id) THEN M
  ELSE [recordCrash(M, id) EXCEPT !.terminals[id].status = "crashed"]

(* faulty variant of handleProcessCrash: the crash is recorded whatever   *)
(* the store holds                                                       *)
recordWhateverId(M, id, exitCode) == recordCrash(M, id)

handleProcessCrash(M, id, exitCode) ==
  IF ~Has(M.terminals, id) THEN M
  ELSE
    LET M1 == recordCrash(M, id)
    IN IF isInCrashLoop(M1, id)
         THEN LET M2 == [M1 EXCEPT !.terminals[id].status = "disabled",
                                   !.loopDisabled = @ \cup {id}]
              IN IF M2.terminals[id].eventSender # NoSender
                   THEN safeSend(M2, M2.terminals[id].eventSender,
                                 IPC_RECOVERY, id, "disabled", 0)
                   ELSE M2
         ELSE [Log(M1, Call("setTimeout", 0, 0, id, "", "", RecoveryDelay, 0))
                 EXCEPT !.terminals[id].status = "recovering",
                        !.timers = Append(@, Timer(M, id, exitCode))]

(* faulty variant of recoveryFailed: the exception is swallowed and the   *)
(* session is left as it was                                              *)
recoveryIgnored(M, id) == [M EXCEPT !.threw = NoErr]

(* the catch block of attemptRecovery *)
recoveryFailed(M, id) ==
  LET M1 == [M EXCEPT !.threw = NoErr, !.terminals[id].status = "disabled"]
  IN IF M1.terminals[id].eventSender # NoSender
       THEN safeSend(M1, M1.terminals[id].eventSender, IPC_RECOVERY, id,
                     "disabled", 0)
       ELSE M1

(* attemptRecovery past its guard: notify, replace the process, notify *)
(* faulty variant of recover: the respawn is not counted *)
respawnUncounted(M, id, outcome, KT) ==
  LET t == M.terminals[id]
      M2 == kill(removeAllListeners(M, t.process), t.process, KT)
  IN IF M2.threw # NoErr THEN recoveryFailed(M2, id)
     ELSE IF outcome # "ok"
       THEN recoveryFailed(spawnFails(M2, id, t.config, outcome), id)
       ELSE LET M3 == spawn(M2, id, t.config)
            IN setupCrashRecovery(
                 [M3 EXCEPT !.terminals[id].process = M3.ret,
                            !.terminals[id].status = "active"], id)

recover(M, id, outcome, KT) ==
  LET t == M.terminals[id]
      M1 == IF t.eventSender # NoSender
              THEN safeSend(M, t.eventSender, IPC_RECOVERY, id, "recovering", 0)
              ELSE M
      M2 == kill(removeAllListeners(M1, t.process), t.process, KT)
  IN IF M2.threw # NoErr THEN recoveryFailed(M2, id)
     ELSE IF outcome # "ok"
       THEN recoveryFailed(spawnFails(M2, id, t.config, outcome), id)
       ELSE
         LET M3 == spawn(M2, id, t.config)
             M4 == [M3 EXCEPT !.terminals[id].process = M3.ret,
                              !.terminals[id].status = "active",
                              !.terminals[id].crashCount = @ + 1]
             M5 == setupCrashRecovery(M4, id)
         IN IF t.eventSender # NoSender
              THEN safeSend(M5, t.eventSender, IPC_RECOVERY, id, "recovered", 0)
              ELSE M5

(* faulty variant of attemptRecovery: the status is not looked at *)
recoverUnlessGone(M, id, outcome, KT) ==
  IF ~Has(M.terminals, id) THEN M ELSE recover(M, id, outcome, KT)

(* faulty variant of attemptRecovery: the callback does nothing *)
recoveryDropped(M, id, outcome, KT) == M

attemptRecovery(M, id, outcome, KT) ==
  IF ~Has(M.terminals, id) \/ M.terminals[id].status = "disabled" THEN M
  ELSE recover(M, id, outcome, KT)

(* faulty variant of destroyTerminal: an unknown id is an error *)
destroyOrThrow(M, id, KT) ==
  IF ~Has(M.terminals, id)
    THEN [M EXCEPT !.threw = Err("Terminal not found: ", id, <<>>)]
  ELSE
    LET pid == M.terminals[id].process
        M1 == kill(removeAllListeners(M, pid), pid, KT)
    IN IF M1.threw # NoErr THEN M1
       ELSE [M1 EXCEPT !.terminals = Remove(@, id)]

(* faulty variant of destroyTerminal: the whole store is dropped *)
destroyEvery(M, id, KT) ==
  IF ~Has(M.terminals, id) THEN M
  ELSE
    LET pid == M.terminals[id].process
        M1 == kill(removeAllListeners(M, pid), pid, KT)
    IN IF M1.threw # NoErr THEN M1
       ELSE [M1 EXCEPT !.terminals = <<>>]

destroyTerminal(M, id, KT) ==
  IF ~Has(M.terminals, id) THEN M
  ELSE
    LET pid == M.terminals[id].process
        M1 == kill(removeAllListeners(M, pid), pid, KT)
    IN IF M1.threw # NoErr THEN M1
       ELSE [M1 EXCEPT !.terminals = Remove(@, id)]

(* faulty variant of writeToTerminal: only an active session is written to *)
writeWhenActive(M, id, data) ==
  IF ~Has(M.terminals, id)
    THEN [M EXCEPT !.threw = Err("Terminal not found: ", id, <<>>)]
  ELSE IF M.terminals[id].status # "active" THEN M
  ELSE Log(M, Call("write", M.terminals[id].process, 0, id, "", data, 0, 0))

writeToTerminal(M, id, data) ==
  IF ~Has(M.terminals, id)
    THEN [M EXCEPT !.threw = Err("Terminal not found: ", id, <<>>)]
    ELSE Log(M, Call("write", M.terminals[id].process, 0, id, "", data, 0, 0))

(* faulty variant of resizeTerminal: an unknown id is silently accepted *)
resizeIfKnown(M, id, cols, rows) ==
  IF ~Has(M.terminals, id) THEN M
  ELSE Log(M, Call("resize", M.terminals[id].process, 0, id, "", "", cols, rows))

(* faulty variant of resizeTerminal: the new size is stored in the config *)
resizeAndRemember(M, id, cols, rows) ==
  IF ~Has(M.terminals, id)
    THEN [M EXCEPT !.threw = Err("Terminal not found: ", id, <<>>)]
    ELSE [Log(M, Call("resize", M.terminals[id].process, 0, id, "", "", cols, rows))
            EXCEPT !.terminals[id].config.cols = cols,
                   !.terminals[id].config.rows = rows]

resizeTerminal(M, id, cols, rows) ==
  IF ~Has(M.terminals, id)
    THEN [M EXCEPT !.threw = Err("Terminal not found: ", id, <<>>)]
    ELSE Log(M, Call("resize", M.terminals[id].process, 0, id, "", "", cols, rows))

(* faulty variant of shellsToTry: the requested shell is not filtered out *)
requestedThenFallbacks(specifiedShell) ==
  IF specifiedShell # ""
    THEN <<specifiedShell>> \o getShellFallbacks(platform)
    ELSE getShellFallbacks(platform)

(* the candidate list of createTerminalWithFallback *)
shellsToTry(specifiedShell) ==
  LET fallbackShells == getShellFallbacks(platform)
      Other(shell) == shell # specifiedShell
  IN IF specifiedShell # ""
       THEN <<specifiedShell>> \o SelectSeq(fallbackShells, Other)
       ELSE fallbackShells

(* faulty variant of isPermissionDenied: no error is a permission error *)
neverDenied(error) == FALSE

(* faulty variant of aggregateError: the last failure is not looked at *)
unknownError(lastError) ==
  Err("Failed to create terminal with any available shell: ", 0,
      <<"Unknown error">>)

(* the test of the catch block of createTerminalWithFallback *)
isPermissionDenied(error) == error.code = "EACCES"

(* the error thrown after the loop of createTerminalWithFallback *)
aggregateError(lastError) ==
  Err("Failed to create terminal with any available shell: ", 0,
      IF lastError.message # <<>> THEN lastError.message
      ELSE <<"Unknown error">>)

(* the for loop of createTerminalWithFallback, from candidate i on *)
RECURSIVE tryShells(_, _, _, _, _, _, _)
tryShells(M, id, config, shells, outcome, i, lastError) ==
  IF i > Len(shells)
    THEN [M EXCEPT !.threw = aggregateError(lastError)]
  ELSE
    LET cfg == [shell |-> shells[i], cwd |-> config.cwd, cols |-> config.cols,
                rows |-> config.rows, env |-> config.env]
    IN IF outcome[i] = "ok"
         THEN LET M1 == spawn(M, id, cfg)
                  M2 == [M1 EXCEPT !.terminals =
                           Put(@, id, [process |-> M1.ret, config |-> cfg,
                                       status |-> "active", crashCount |-> 0,
                                       eventSender |-> NoSender])]
              IN [setupCrashRecovery(M2, id) EXCEPT !.ret = id]
         ELSE LET M1 == [spawnFails(M, id, cfg, outcome[i]) EXCEPT !.threw = NoErr]
              IN IF isPermissionDenied(SpawnError(shells[i], outcome[i]))
                   THEN [M1 EXCEPT !.threw =
                           Err("Terminal creation failed: Permission denied. Please check shell permissions.",
                               0, <<>>)]
                   ELSE tryShells(M1, id, config, shells, outcome, i + 1,
                                  SpawnError(shells[i], outcome[i]))

createTerminalWithFallback(M, id, options, outcome) ==
  LET config == [cwd |-> IF options.cwd # "" THEN options.cwd ELSE "os.homedir()",
                 cols |-> IF options.cols # 0 THEN options.cols ELSE DefaultCols,
                 rows |-> IF options.rows # 0 THEN options.rows ELSE DefaultRows,
                 env |-> IF options.env # "" THEN options.env ELSE "process.env"]
  IN tryShells(M, id, config, shellsToTry(options.shell), outcome, 1,
               [code |-> "", message |-> <<>>])

(* ---------------- state machine ---------------- *)
MState == [terminals |-> terminals, crashHistory |-> crashHistory,
           procs |-> procs, nextPid |-> nextPid, timers |-> timers,
           loopDisabled |-> loopDisabled, crashLog |-> crashLog,
           calls |-> <<>>, threw |-> NoErr, ret |-> 0]

(* a handle that no record holds, that has no listener left and whose      *)
(* process is dead can never reach the manager again: it is dropped        *)
Reachable(M, pid) ==
  \/ \E id \in DOMAIN M.terminals : M.terminals[id].process = pid
  \/ M.procs[pid].crashL
  \/ M.procs[pid].ipcL # NoSender
  \/ M.procs[pid].state = "running"

Commit(M, res) ==
  /\ terminals' = M.terminals
  /\ crashHistory' = M.crashHistory
  /\ procs' = [pid \in {q \in DOMAIN M.procs : Reachable(M, q)} |-> M.procs[pid]]
  /\ nextPid' = M.nextPid
  /\ timers' = M.timers
  /\ loopDisabled' = M.loopDisabled
  /\ crashLog' = M.crashLog
  /\ calls' = M.calls
  /\ result' = res
  /\ UNCHANGED component

DefaultOptions == [shell |-> "", cwd |-> "", cols |-> 0, rows |-> 0, env |-> ""]
NoArg == Arg(0, 0, 0, "", DefaultOptions)

RequestOptions ==
  { DefaultOptions,
    [shell |-> "/bin/sh", cwd |-> "/tmp", cols |-> 120, rows |-> 40, env |-> ""],
    [shell |-> "/usr/bin/fish", cwd |-> "", cols |-> 0, rows |-> 0, env |-> ""] }

(* data() of the component *)
Unmounted ==
  /\ terminal = "null"
  /\ terminalId = 0
  /\ commandHistory = <<>>
  /\ historyIndex = -1
  /\ currentCommand = <<>>
  /\ recoveryStatus = ""
  /\ errorMessage = ""
  /\ isInDemoMode = FALSE
  /\ pushed = 0

InitManager(hosts) ==
  /\ platform \in hosts
  /\ terminals = <<>>
  /\ crashHistory = <<>>
  /\ procs = <<>>
  /\ nextPid = 1
  /\ timers = <<>>
  /\ now = 0
  /\ nextId = 1
  /\ sinkDestroyed = [s \in Sinks |-> FALSE]
  /\ calls = <<>>
  /\ result = Result("init", NoArg, "callback", TRUE, 0, NoErr)
  /\ loopDisabled = {}
  /\ crashLog = <<>>

(* the manager on one of the hosts, the component not mounted *)
InitOn(hosts) == InitManager(hosts) /\ apiAvailable = TRUE /\ Unmounted

Init == InitOn({"linux"})
InitAnyHost == InitOn(Platforms)

(* handleCreateTerminal(event, options) *)
HandleCreateTerminal(sink, options, outcome) ==
  /\ LET id == nextId
         M1 == createTerminalWithFallback(MState, id, options, outcome)
     IN /\ IF M1.threw # NoErr
             THEN Commit([M1 EXCEPT !.threw = NoErr],
                         Result("create", Arg(id, 0, 0, "", options), "return",
                                FALSE, 0, M1.threw))
             ELSE LET pid == M1.terminals[id].process
                      M2 == [M1 EXCEPT !.procs[pid].ipcL = sink,
                                       !.terminals[id].eventSender = sink]
                  IN Commit(M2, Result("create", Arg(id, 0, 0, "", options),
                                       "return", TRUE, id, NoErr))
  /\ nextId' = nextId + 1
  /\ UNCHANGED <<platform, now, sinkDestroyed>>

(* the empty string as id; 0 stands for no id at all *)
EmptyId == -1

(* faulty variant of validateMessage: every message is accepted *)
acceptAny(M, message) == M

(* validateMessage(message) *)
validateMessage(M, message) ==
  IF ~message.present
    THEN [M EXCEPT !.threw = Err("Invalid message: message is required", 0, <<>>)]
  ELSE IF message.idKind = "missing"
    THEN [M EXCEPT !.threw = Err("Invalid message: missing id", 0, <<>>)]
  ELSE M

(* request messages: absent, without id, with the empty string as id, or   *)
(* with an id that was or was never handed out                             *)
Messages ==
  { [present |-> FALSE, idKind |-> "missing", id |-> 0],
    [present |-> TRUE, idKind |-> "missing", id |-> 0],
    [present |-> TRUE, idKind |-> "empty", id |-> EmptyId] }
  \cup { [present |-> TRUE, idKind |-> "uuid", id |-> i] : i \in 1..nextId }

(* the try/catch of a request handler: the response it returns *)
Respond(op, arg, M) ==
  IF M.threw # NoErr
    THEN Commit([M EXCEPT !.threw = NoErr], Result(op, arg, "return", FALSE, 0, M.threw))
    ELSE Commit(M, Result(op, arg, "return", TRUE, 0, NoErr))

(* a callback run by the event loop: an exception leaving it is uncaught *)
Callback(op, arg, M) ==
  IF M.threw # NoErr
    THEN Commit([M EXCEPT !.threw = NoErr], Result(op, arg, "uncaught", FALSE, 0, M.threw))
    ELSE Commit(M, Result(op, arg, "callback", TRUE, 0, NoErr))

(* handleTerminalInput(event, data) *)
HandleTerminalInput(message, data) ==
  /\ LET M1 == validateMessage(MState, message)
     IN Respond("write", Arg(message.id, 0, 0, data, DefaultOptions),
                IF M1.threw # NoErr THEN M1
                ELSE writeToTerminal(M1, message.id, data))
  /\ UNCHANGED <<platform, now, nextId, sinkDestroyed>>

(* handleTerminalResize(event, data) *)
HandleTerminalResize(message, cols, rows) ==
  /\ LET M1 == validateMessage(MState, message)
     IN Respond("resize", Arg(message.id, 0, 0, "", DefaultOptions),
                IF M1.threw # NoErr THEN M1
                ELSE resizeTerminal(M1, message.id, cols, rows))
  /\ UNCHANGED <<platform, now, nextId, sinkDestroyed>>

(* handleDestroyTerminal(event, data) *)
HandleDestroyTerminal(message, KT) ==
  /\ LET M1 == validateMessage(MState, message)
     IN Respond("destroy", Arg(message.id, 0, 0, "", DefaultOptions),
                IF M1.threw # NoErr THEN M1
                ELSE destroyTerminal(M1, message.id, KT))
  /\ UNCHANGED <<platform, now, nextId, sinkDestroyed>>

(* the for..of loop of cleanup over the live Map, in insertion order: ids   *)
(* are handed out in increasing order and a record is never re-inserted     *)
RECURSIVE cleanupFrom(_, _, _)
cleanupFrom(M, i, KT) ==
  IF i >= nextId \/ M.threw # NoErr THEN M
  ELSE cleanupFrom(IF Has(M.terminals, i) THEN destroyTerminal(M, i, KT) ELSE M,
                   i + 1, KT)

(* faulty variant of cleanup: an empty store is an error *)
cleanupStrict(M, KT) ==
  IF DOMAIN M.terminals = {}
    THEN [M EXCEPT !.threw = Err("No terminals", 0, <<>>)]
    ELSE cleanupFrom(M, 1, KT)

cleanup(M, KT) == cleanupFrom(M, 1, KT)

Cleanup(KT) ==
  /\ Callback("cleanup", NoArg, cleanup(MState, KT))
  /\ UNCHANGED <<platform, now, nextId, sinkDestroyed>>

(* listeners registered by setupCrashRecovery *)
(* faulty variant of crashExitListener: only code 0 is not a crash *)
crashUnlessZero(M, id, code) ==
  IF code # 0 THEN handleProcessCrash(M, id, code) ELSE M

crashExitListener(M, id, code) ==
  IF code # 0 /\ code # NullCode THEN handleProcessCrash(M, id, code) ELSE M

crashErrorListener(M, id) == handleProcessCrash(M, id, -1)

(* listeners registered by handleCreateTerminal *)
ipcDataListener(M, sender, id, data) == safeSend(M, sender, IPC_DATA, id, data, 0)

ipcExitListener(M, sender, id, code, KT) ==
  LET M1 == safeSend(M, sender, IPC_EXIT, id, "", code)
  IN IF code = 0 THEN destroyTerminal(M1, id, KT) ELSE M1

(* the process emits 'data': its listener, if it has one, runs *)
ProcData(pid, data) ==
  /\ pid \in DOMAIN procs
  /\ procs[pid].state = "running"
  /\ Callback("data", Arg(procs[pid].owner, pid, 0, data, DefaultOptions),
              IF procs[pid].ipcL # NoSender
                THEN ipcDataListener(MState, procs[pid].ipcL, procs[pid].owner,
                                     data)
                ELSE MState)
  /\ UNCHANGED <<platform, now, nextId, sinkDestroyed>>

(* the process emits 'exit': its listeners run in registration order *)
ProcExit(pid, code, KT) ==
  /\ pid \in DOMAIN procs
  /\ procs[pid].state = "running"
  /\ LET p == procs[pid]
         M0 == [MState EXCEPT !.procs[pid].state = "exited"]
         M1 == IF p.crashL THEN crashExitListener(M0, p.owner, code) ELSE M0
         M2 == IF p.ipcL # NoSender /\ M1.threw = NoErr
                 THEN ipcExitListener(M1, p.ipcL, p.owner, code, KT) ELSE M1
     IN Callback("exit", Arg(p.owner, pid, code, "", DefaultOptions), M2)
  /\ UNCHANGED <<platform, now, nextId, sinkDestroyed>>

(* the process emits 'error' *)
ProcError(pid) ==
  /\ pid \in DOMAIN procs
  /\ procs[pid].state = "running"
  /\ procs[pid].crashL
  /\ LET M0 == [MState EXCEPT !.procs[pid].errs = @ + 1]
     IN Callback("error", Arg(procs[pid].owner, pid, 0, "", DefaultOptions),
                 crashErrorListener(M0, procs[pid].owner))
  /\ UNCHANGED <<platform, now, nextId, sinkDestroyed>>

(* the setTimeout callback scheduled by handleProcessCrash fires *)
FireTimer(outcome, KT) ==
  /\ timers # <<>>
  /\ Head(timers).due <= now
  /\ LET M0 == [MState EXCEPT !.timers = Tail(@)]
     IN Callback("timer", Arg(Head(timers).id, 0, 0, outcome, DefaultOptions),
                 attemptRecovery(M0, Head(timers).id, outcome, KT))
  /\ UNCHANGED <<platform, now, nextId, sinkDestroyed>>

(* time passes up to instant t, never beyond the next timer that is due *)
Tick(t) ==
  /\ t > now
  /\ timers # <<>> => t <= Head(timers).due
  /\ now' = t
  /\ calls' = <<>>
  /\ result' = Result("tick", NoArg, "callback", TRUE, 0, NoErr)
  /\ UNCHANGED <<platform, terminals, crashHistory, procs, nextPid, timers,
                 nextId, sinkDestroyed, loopDisabled, crashLog, component>>

(* the window behind a sink is torn down *)
SinkDestroy(s) ==
  /\ ~sinkDestroyed[s]
  /\ sinkDestroyed' = [sinkDestroyed EXCEPT ![s] = TRUE]
  /\ calls' = <<>>
  /\ result' = Result("closed", NoArg, "callback", TRUE, 0, NoErr)
  /\ UNCHANGED <<platform, terminals, crashHistory, procs, nextPid, timers,
                 now, nextId, loopDisabled, crashLog, component>>

(* ---------------- inputs ---------------- *)
(* the handles among S whose process is dead: candidates for a raising kill *)
KillThrowSets(S) == SUBSET {pid \in S \cap DOMAIN procs : procs[pid].state # "running"}

HeldBy(ids) == {terminals[id].process : id \in ids \cap DOMAIN terminals}

AllOk(options) == [i \in 1..Len(shellsToTry(options.shell)) |-> "ok"]

KnownMessage(id) == [present |-> TRUE, idKind |-> "uuid", id |-> id]

(* well-formed messages: the ids handed out so far and one never handed out *)
IdMessages == {KnownMessage(i) : i \in 1..nextId}

(* what each spawn of a creation does, per candidate: the candidates after *)
(* the one that succeeds or is denied are never spawned, so their outcome  *)
(* is fixed                                                                *)
SpawnScripts(n) ==
  {f \in [1..n -> SpawnOutcomes] :
     \A i \in 1..(n - 1) : f[i] \in {"ok", "EACCES"} => f[i + 1] = "ok"}

DueTimes == {timers[i].due : i \in DOMAIN timers}

(* ---------------- Spec: the lifecycle of a session ---------------- *)
(* One session, created with default options on a host where the preferred *)
(* shell spawns, followed through every process event, the recovery timer, *)
(* the clock, the sink and its destruction.                                *)
Next ==
  \/ /\ nextId = 1
     /\ \E sink \in Sinks : HandleCreateTerminal(sink, DefaultOptions, AllOk(DefaultOptions))
  \/ \E id \in DOMAIN terminals :
       \E KT \in KillThrowSets(HeldBy({id})) : HandleDestroyTerminal(KnownMessage(id), KT)
  \/ \E pid \in DOMAIN procs, code \in ExitCodes :
       \E KT \in (IF code = 0 THEN SUBSET {pid} ELSE {{}}) : ProcExit(pid, code, KT)
  \/ \E pid \in DOMAIN procs : procs[pid].errs < MaxErrs /\ ProcError(pid)
  \/ \E pid \in DOMAIN procs : ProcData(pid, "ls\r")
  \/ /\ timers # <<>>
     /\ \E outcome \in SpawnOutcomes :
        \E KT \in KillThrowSets(HeldBy({Head(timers).id})) :
          /\ outcome = "ok" => nextPid <= MaxProcs
          /\ FireTimer(outcome, KT)
  \/ \E t \in TimePoints \cup DueTimes : Tick(t)
  \/ \E s \in Sinks : SinkDestroy(s)

Spec == Init /\ [][Next]_vars

(* ---------------- SpecRequests: requests on concurrent sessions -------- *)
(* Several sessions at once; every request, on ids that are and that are   *)
(* not in the store; process events and the recovery timer, the clock      *)
(* moving only to the instants at which a timer is due.                    *)
NextRequests ==
  \/ /\ nextId <= MaxSessions
     /\ nextPid <= MaxSpawns
     /\ \E sink \in Sinks : HandleCreateTerminal(sink, DefaultOptions, AllOk(DefaultOptions))
  \/ \E message \in IdMessages, data \in WriteData : HandleTerminalInput(message, data)
  \/ \E message \in IdMessages, dims \in ResizeDims :
       HandleTerminalResize(message, dims[1], dims[2])
  \/ \E message \in IdMessages :
       \E KT \in KillThrowSets(HeldBy({message.id})) : HandleDestroyTerminal(message, KT)
  \/ \E KT \in KillThrowSets(HeldBy(DOMAIN terminals)) : Cleanup(KT)
  \/ \E pid \in DOMAIN procs : ProcData(pid, "ls\r")
  \/ \E pid \in DOMAIN procs, code \in {0, 1} :
       \E KT \in (IF code = 0 THEN SUBSET {pid} ELSE {{}}) : ProcExit(pid, code, KT)
  \/ /\ timers # <<>>
     /\ \E outcome \in {"ok", "ENOENT"} :
        \E KT \in KillThrowSets(HeldBy({Head(timers).id})) :
          /\ outcome = "ok" => nextPid <= MaxSpawns
          /\ FireTimer(outcome, KT)
  \/ \E t \in DueTimes : Tick(t)

SpecRequests == Init /\ [][NextRequests]_vars

(* ---------------- SpecCreate: creation with fallback ------------------- *)
(* Every platform, every kind of options, every outcome of every spawn,    *)
(* and the requests with every kind of message, malformed ones included.   *)
NextCreate ==
  \/ /\ nextId <= MaxCreates
     /\ \E sink \in Sinks, options \in RequestOptions :
          \E outcome \in SpawnScripts(Len(shellsToTry(options.shell))) :
            HandleCreateTerminal(sink, options, outcome)
  \/ \E message \in Messages : HandleTerminalInput(message, "ls\r")
  \/ \E message \in Messages, dims \in ResizeDims :
       HandleTerminalResize(message, dims[1], dims[2])
  \/ \E message \in Messages :
       \E KT \in KillThrowSets(HeldBy({message.id})) : HandleDestroyTerminal(message, KT)

SpecCreate == InitAnyHost /\ [][NextCreate]_vars

(* ---------------- SpecCrashTracker: the crash tracker alone ------------ *)
(* recordCrash and isInCrashLoop called directly, for two ids, at instants *)
(* that lie less than, exactly and more than one window apart.             *)
TrackerIds == {1, 2}

(* recordCrash(terminalId) *)
RecordCrash(id) ==
  /\ Callback("recordCrash", Arg(id, 0, 0, "", DefaultOptions),
              recordCrash(MState, id))
  /\ UNCHANGED <<platform, now, nextId, sinkDestroyed>>

(* isInCrashLoop(terminalId): the value returned is result.success *)
IsInCrashLoop(id) ==
  /\ Commit(MState, Result("isInCrashLoop", Arg(id, 0, 0, "", DefaultOptions),
                           "return", isInCrashLoop(MState, id), 0, NoErr))
  /\ UNCHANGED <<platform, now, nextId, sinkDestroyed>>

(* the number of recordCrash calls made so far *)
RECURSIVE Recorded(_)
Recorded(ids) ==
  IF ids = {} THEN 0
  ELSE LET id == CHOOSE x \in ids : TRUE
       IN Len(crashLog[id]) + Recorded(ids \ {id})

NextCrashTracker ==
  \/ /\ Recorded(DOMAIN crashLog) < MaxCrashes
     /\ \E id \in TrackerIds : RecordCrash(id)
  \/ \E id \in TrackerIds : IsInCrashLoop(id)
  \/ \E t \in TimePoints : Tick(t)

SpecCrashTracker == Init /\ [][NextCrashTracker]_vars

(* ---------------- SpecConfig: the config of a session ------------------ *)
(* One session created with every kind of options and every outcome of the *)
(* spawns, then written to, resized, crashed and recovered.                *)
NextConfig ==
  \/ /\ nextId = 1
     /\ \E sink \in Sinks, options \in RequestOptions :
          \E outcome \in SpawnScripts(Len(shellsToTry(options.shell))) :
            HandleCreateTerminal(sink, options, outcome)
  \/ \E id \in DOMAIN terminals : HandleTerminalInput(KnownMessage(id), "ls\r")
  \/ \E id \in DOMAIN terminals, dims \in ResizeDims :
       HandleTerminalResize(KnownMessage(id), dims[1], dims[2])
  \/ \E pid \in DOMAIN procs : ProcExit(pid, 1, {})
  \/ \E pid \in DOMAIN procs : procs[pid].errs < MaxErrs /\ ProcError(pid)
  \/ /\ timers # <<>>
     /\ \E outcome \in {"ok", "ENOENT"} :
        \E KT \in KillThrowSets(HeldBy({Head(timers).id})) :
          /\ outcome = "ok" => nextPid <= MaxSpawns
          /\ FireTimer(outcome, KT)
  \/ \E t \in DueTimes : Tick(t)

SpecConfig == Init /\ [][NextConfig]_vars

(* ---------------- SpecRecovery: the delayed recovery callback ---------- *)
(* One session that crashes, exits, is recovered and is destroyed, the     *)
(* event loop eventually running every callback that is due and the clock  *)
(* eventually reaching the instant at which the next callback is due.      *)
TimerFires ==
  /\ timers # <<>>
  /\ \E outcome \in {"ok", "ENOENT"} :
     \E KT \in KillThrowSets(HeldBy({Head(timers).id})) :
       /\ outcome = "ok" => nextPid <= MaxSpawns
       /\ FireTimer(outcome, KT)

ClockReachesDue == \E t \in DueTimes : Tick(t)

NextRecovery ==
  \/ /\ nextId = 1
     /\ \E sink \in Sinks : HandleCreateTerminal(sink, DefaultOptions, AllOk(DefaultOptions))
  \/ \E id \in DOMAIN terminals :
       \E KT \in KillThrowSets(HeldBy({id})) : HandleDestroyTerminal(KnownMessage(id), KT)
  \/ \E pid \in DOMAIN procs, code \in {0, 1} :
       \E KT \in (IF code = 0 THEN SUBSET {pid} ELSE {{}}) : ProcExit(pid, code, KT)
  \/ \E pid \in DOMAIN procs : procs[pid].errs < MaxErrs /\ ProcError(pid)
  \/ TimerFires
  \/ ClockReachesDue

SpecRecovery ==
  Init /\ [][NextRecovery]_vars /\ WF_vars(TimerFires) /\ WF_vars(ClockReachesDue)

(* ---------------- SpecCrashHandler: handleProcessCrash alone ----------- *)
(* handleProcessCrash called directly, for the id of the one session made  *)
(* and for an id that is not in the store, before and after the session is *)
(* destroyed, with the recovery callbacks it schedules.                    *)
HandleProcessCrash(id, exitCode) ==
  /\ Callback("handleProcessCrash", Arg(id, 0, exitCode, "", DefaultOptions),
              handleProcessCrash(MState, id, exitCode))
  /\ UNCHANGED <<platform, now, nextId, sinkDestroyed>>

NextCrashHandler ==
  \/ /\ nextId = 1
     /\ \E sink \in Sinks : HandleCreateTerminal(sink, DefaultOptions, AllOk(DefaultOptions))
  \/ /\ Recorded(DOMAIN crashLog) < MaxCrashes
     /\ \E id \in TrackerIds, exitCode \in {1, -1} : HandleProcessCrash(id, exitCode)
  \/ \E id \in DOMAIN terminals :
       \E KT \in KillThrowSets(HeldBy({id})) : HandleDestroyTerminal(KnownMessage(id), KT)
  \/ TimerFires
  \/ ClockReachesDue

SpecCrashHandler == Init /\ [][NextCrashHandler]_vars

(* ================= the TerminalSession component ================= *)
(* Every method of the component is an operator on a record S that carries *)
(* the data of the component through the statements of the method, with    *)
(* S.calls the calls made on window.electronAPI.terminal and on the xterm  *)
(* instance.  A command is a sequence of characters; "DEL" names the       *)
(* character \x7f and "BS" the character \b.  A request to the main        *)
(* process is settled within the step that sends it.                       *)
maxHistorySize == 1000

(* characters typed into currentCommand, commands pushed to the history *)
MaxLen == 2
MaxPushes == 3
(* SpecHistoryCap: commands pushed to the history that is almost full *)
MaxCapPushes == 2

Whitespace == {" ", "\r", "\n", "\t"}

(* String.prototype.trim *)
RECURSIVE trimStart(_)
trimStart(str) ==
  IF str # <<>> /\ Head(str) \in Whitespace THEN trimStart(Tail(str)) ELSE str

RECURSIVE trimEnd(_)
trimEnd(str) ==
  IF str # <<>> /\ str[Len(str)] \in Whitespace
    THEN trimEnd(SubSeq(str, 1, Len(str) - 1)) ELSE str

trim(str) == trimEnd(trimStart(str))

(* the length of seq.slice(start, end), a negative index counting from the *)
(* end of seq                                                              *)
sliceFrom(seq, start) ==
  IF start < 0 THEN (IF Len(seq) + start < 0 THEN 0 ELSE Len(seq) + start)
  ELSE (IF start > Len(seq) THEN Len(seq) ELSE start)

(* faulty variant of slice: the elements are taken from the start of seq *)
sliceHead(seq, start, end) ==
  SubSeq(seq, 1, sliceFrom(seq, end) - sliceFrom(seq, start))

(* Array.prototype.slice and String.prototype.slice *)
slice(seq, start, end) ==
  SubSeq(seq, sliceFrom(seq, start) + 1, sliceFrom(seq, end))

(* the characters of a datum handed to onData *)
chars(data) ==
  CASE data = "a " -> <<"a", " ">>
    [] OTHER -> <<data>>

(* data.charCodeAt(0) >= 32 *)
printable(data) == Head(chars(data)) \notin {"\r", "\n", "\t", "BS"}

(* error.message.includes(...) for the messages of the model *)
IpcFailures == {"IPC connection lost", "connection refused", "timeout"}
CreateFailures == {"Permission denied: /bin/bash", "Shell not found", ""}
includes(message, text) ==
  CASE text = "IPC" -> message \in {"IPC connection lost"}
    [] text = "connection" -> message \in {"IPC connection lost", "connection refused"}
    [] text = "Permission denied" -> message \in {"Permission denied: /bin/bash"}
    [] text = "Shell not found" -> message \in {"Shell not found"}
    [] OTHER -> FALSE

SState == [terminal |-> terminal, terminalId |-> terminalId,
           commandHistory |-> commandHistory, historyIndex |-> historyIndex,
           currentCommand |-> currentCommand, recoveryStatus |-> recoveryStatus,
           errorMessage |-> errorMessage, isInDemoMode |-> isInDemoMode,
           pushed |-> pushed, calls |-> <<>>]

(* this.terminal.write(text) and this.terminal.clear() *)
xterm(S, op, text) ==
  [S EXCEPT !.calls = Append(@, Call(op, 0, 0, S.terminalId, "", text, 0, 0))]

(* window.electronAPI.terminal.<op>(this.terminalId, ...) and its outcome *)
electronAPI(S, op, outcome, data, cols, rows) ==
  [S EXCEPT !.calls = Append(@, Call(op, 0, 0, S.terminalId, outcome, data,
                                     cols, rows))]

enterDemoMode(S, reason) ==
  LET S1 == xterm(S, "terminal.write", "Welcome to CLI Buddy v0.1.0")
      S2 == xterm(S1, "terminal.write", "Terminal powered by xterm.js")
      S3 == xterm(S2, "terminal.write", reason)
  IN [xterm(S3, "terminal.write", "") EXCEPT !.isInDemoMode = TRUE]

handleIpcError(S, message) ==
  IF includes(message, "IPC") \/ includes(message, "connection")
    THEN enterDemoMode(S, "Lost connection to main process")
    ELSE S

handleTerminalCreationError(S, message) ==
  LET text == IF includes(message, "Permission denied")
                THEN "Permission denied. Please check terminal permissions."
              ELSE IF includes(message, "Shell not found")
                THEN "Default shell not found. Using fallback mode."
              ELSE "Failed to create terminal session."
  IN enterDemoMode([S EXCEPT !.errorMessage = text], text)

(* initializeTerminal(): outcome is "ok" or the error of the create request *)
initializeTerminal(S, id, outcome) ==
  LET S1 == [S EXCEPT !.terminal = "xterm"]
  IN IF apiAvailable
       THEN LET S2 == electronAPI(S1, "create", outcome, "", DefaultCols, DefaultRows)
            IN IF outcome = "ok" THEN [S2 EXCEPT !.terminalId = id]
               ELSE handleTerminalCreationError(
                      S2, IF outcome = "" THEN "Failed to create terminal"
                          ELSE outcome)
       ELSE enterDemoMode(S1, "ElectronAPI not available")

(* faulty variant of handleEnterKey: the command is pushed as typed *)
pushUntrimmed(S) ==
  [S EXCEPT !.commandHistory = Append(@, S.currentCommand),
            !.pushed = @ + 1,
            !.historyIndex = -1,
            !.currentCommand = <<>>]

handleEnterKey(S) ==
  LET command == trim(S.currentCommand)
      h == S.commandHistory
      add == command # <<>> /\ (Len(h) = 0 \/ h[Len(h)] # command)
      h1 == Append(h, command)
      h2 == IF Len(h1) > maxHistorySize
              THEN slice(h1, -maxHistorySize, Len(h1)) ELSE h1
  IN [S EXCEPT !.commandHistory = IF add THEN h2 ELSE h,
               !.pushed = IF add THEN @ + 1 ELSE @,
               !.historyIndex = -1,
               !.currentCommand = <<>>]

replaceCurrentLine(S) ==
  IF S.terminal = "xterm"
    THEN xterm(xterm(S, "terminal.write", "\\r\\x1b[K"), "terminal.write", "$ ")
    ELSE S

(* faulty variant of handleUpArrow: the index goes back from the first entry *)
upBeyondFirst(S) ==
  IF Len(S.commandHistory) = 0 THEN S
  ELSE [S EXCEPT !.historyIndex = IF @ = -1 THEN Len(S.commandHistory) - 1
                                  ELSE @ - 1]

handleUpArrow(S) ==
  IF Len(S.commandHistory) = 0 THEN S
  ELSE
    LET i == IF S.historyIndex = -1 THEN Len(S.commandHistory) - 1
             ELSE IF S.historyIndex > 0 THEN S.historyIndex - 1
             ELSE S.historyIndex
        S1 == [S EXCEPT !.historyIndex = i]
    IN IF i >= 0 /\ i < Len(S.commandHistory)
         THEN replaceCurrentLine(
                [S1 EXCEPT !.currentCommand = S.commandHistory[i + 1]])
         ELSE S1

(* faulty variant of handleDownArrow: the index goes on past the last entry *)
downPastLast(S) ==
  IF Len(S.commandHistory) = 0 \/ S.historyIndex = -1 THEN S
  ELSE IF S.historyIndex < Len(S.commandHistory) - 1
    THEN replaceCurrentLine(
           [S EXCEPT !.historyIndex = @ + 1,
                     !.currentCommand = S.commandHistory[S.historyIndex + 2]])
    ELSE [S EXCEPT !.historyIndex = @ + 1]

handleDownArrow(S) ==
  IF Len(S.commandHistory) = 0 \/ S.historyIndex = -1 THEN S
  ELSE IF S.historyIndex < Len(S.commandHistory) - 1
    THEN replaceCurrentLine(
           [S EXCEPT !.historyIndex = @ + 1,
                     !.currentCommand = S.commandHistory[S.historyIndex + 2]])
    ELSE replaceCurrentLine(
           [S EXCEPT !.historyIndex = -1, !.currentCommand = <<>>])

handleCtrlC(S) ==
  IF S.terminalId # 0 /\ apiAvailable
    THEN electronAPI(S, "write", "ok", "\\x03", 0, 0)
    ELSE S

handleCtrlL(S) ==
  IF S.terminal = "xterm" THEN xterm(S, "terminal.clear", "") ELSE S

(* handleTerminalInput(data): outcome is "ok" or the error of the write *)
handleTerminalInput(S, data, outcome) ==
  LET S1 == IF data \in {"\r", "\n"} THEN handleEnterKey(S)
            ELSE IF data \in {"DEL", "BS"}
              THEN [S EXCEPT !.currentCommand = slice(@, 0, -1)]
            ELSE IF printable(data)
              THEN [S EXCEPT !.currentCommand = @ \o chars(data)]
            ELSE S
  IN IF S1.terminalId # 0 /\ apiAvailable /\ ~S1.isInDemoMode
       THEN LET S2 == electronAPI(S1, "write", outcome, data, 0, 0)
            IN IF outcome # "ok" THEN handleIpcError(S2, outcome) ELSE S2
       ELSE S1

(* handleKeyboardShortcut(event) *)
handleKeyboardShortcut(S, event) ==
  IF event.ctrlKey /\ event.key = "c" THEN handleCtrlC(S)
  ELSE IF event.ctrlKey /\ event.key = "l" THEN handleCtrlL(S)
  ELSE IF event.key = "ArrowUp" THEN handleUpArrow(S)
  ELSE IF event.key = "ArrowDown" THEN handleDownArrow(S)
  ELSE IF event.key = "Enter" THEN handleEnterKey(S)
  ELSE S

(* handleResize(): outcome is "ok" or the error of the resize request *)
handleResize(S, outcome) ==
  IF S.terminal # "xterm" THEN S
  ELSE
    LET S1 == xterm(S, "fitAddon.fit", "")
    IN IF S1.terminalId # 0 /\ apiAvailable /\ ~S1.isInDemoMode
         THEN LET S2 == electronAPI(S1, "resize", outcome, "", DefaultCols,
                                    DefaultRows)
              IN IF outcome # "ok" THEN handleIpcError(S2, outcome) ELSE S2
         ELSE S1

handleRecoveryNotification(S, id, status) ==
  IF id # S.terminalId THEN S
  ELSE
    LET S1 == [S EXCEPT !.recoveryStatus = status]
    IN IF status = "recovering"
         THEN xterm(S1, "terminal.write", "[Terminal recovering...]")
       ELSE IF status = "recovered"
         THEN [xterm(S1, "terminal.write", "[Terminal recovered successfully]")
                 EXCEPT !.recoveryStatus = ""]
       ELSE IF status = "disabled"
         THEN [xterm(S1, "terminal.write",
                     "[Terminal disabled due to repeated crashes]")
                 EXCEPT !.errorMessage = "Terminal disabled due to repeated crashes"]
       ELSE S1

handleTerminalData(S, id, data) ==
  IF S.terminal = "xterm" /\ id = S.terminalId
    THEN xterm(S, "terminal.write", data) ELSE S

handleTerminalExit(S, id, code) ==
  IF S.terminal = "xterm" /\ id = S.terminalId
    THEN xterm(S, "terminal.write", "Process exited with code") ELSE S

(* destroyTerminal() of the component: an error of the request is logged *)
componentDestroyTerminal(S, outcome) ==
  LET S1 == IF S.terminalId # 0 /\ apiAvailable /\ ~S.isInDemoMode
              THEN electronAPI(S, "destroy", outcome, "", 0, 0) ELSE S
  IN [S1 EXCEPT !.terminal = "disposed", !.terminalId = 0,
                !.recoveryStatus = "", !.errorMessage = ""]

(* a method of the component has run *)
Ran(op, arg, S) ==
  /\ terminal' = S.terminal
  /\ terminalId' = S.terminalId
  /\ commandHistory' = S.commandHistory
  /\ historyIndex' = S.historyIndex
  /\ currentCommand' = S.currentCommand
  /\ recoveryStatus' = S.recoveryStatus
  /\ errorMessage' = S.errorMessage
  /\ isInDemoMode' = S.isInDemoMode
  /\ pushed' = S.pushed
  /\ calls' = S.calls
  /\ result' = Result(op, arg, "callback", TRUE, 0, NoErr)
  /\ UNCHANGED <<manager, apiAvailable>>

(* mounted() *)
Mounted(id, outcome) ==
  /\ terminal = "null"
  /\ Ran("mounted", Arg(id, 0, 0, outcome, DefaultOptions),
         initializeTerminal(SState, id, outcome))

(* beforeUnmount() *)
BeforeUnmount(outcome) ==
  /\ terminal = "xterm"
  /\ Ran("beforeUnmount", Arg(terminalId, 0, 0, outcome, DefaultOptions),
         componentDestroyTerminal(SState, outcome))

(* xterm hands typed data to onData *)
OnData(data, outcome) ==
  /\ terminal = "xterm"
  /\ Ran("onData", Arg(terminalId, 0, 0, data, DefaultOptions),
         handleTerminalInput(SState, data, outcome))

(* xterm hands a key event to the custom key event handler; ctrl is 1 when *)
(* the control key is held                                                 *)
OnKey(ctrl, key) ==
  /\ terminal = "xterm"
  /\ Ran("onKey", Arg(terminalId, 0, ctrl, key, DefaultOptions),
         handleKeyboardShortcut(SState, [ctrlKey |-> ctrl = 1, key |-> key]))

(* the ResizeObserver fires *)
OnResize(outcome) ==
  /\ terminal = "xterm"
  /\ Ran("onResize", Arg(terminalId, 0, 0, outcome, DefaultOptions),
         handleResize(SState, outcome))

(* a notification of the main process reaches the listeners registered on  *)
(* window.electronAPI.terminal                                             *)
OnRecovery(id, status) ==
  /\ terminal = "xterm"
  /\ terminalId # 0
  /\ Ran("onRecovery", Arg(id, 0, 0, status, DefaultOptions),
         handleRecoveryNotification(SState, id, status))

OnTerminalData(id, data) ==
  /\ terminal = "xterm"
  /\ terminalId # 0
  /\ Ran("onTerminalData", Arg(id, 0, 0, data, DefaultOptions),
         handleTerminalData(SState, id, data))

OnTerminalExit(id, code) ==
  /\ terminal = "xterm"
  /\ terminalId # 0
  /\ Ran("onTerminalExit", Arg(id, 0, code, "", DefaultOptions),
         handleTerminalExit(SState, id, code))

(* the component on a host with or without window.electronAPI *)
InitComponent == InitManager({"linux"}) /\ apiAvailable \in BOOLEAN /\ Unmounted

(* ---------------- SpecHistory: the command history -------------------- *)
(* The component mounted with and without window.electronAPI, then typed   *)
(* data, Enter and the arrow keys, every request to the main process       *)
(* succeeding.                                                             *)
TypedData == {"a", " ", "\r", "DEL", "\t"}

(* the bounds of the model let the datum be typed, limit commands having  *)
(* been pushed at most                                                    *)
Typable(data, limit) ==
  /\ data \in {"\r", "\n"} => pushed < limit
  /\ (data \notin {"\r", "\n", "DEL", "BS"} /\ printable(data))
       => Len(currentCommand) + Len(chars(data)) <= MaxLen

NextHistory ==
  \/ Mounted(1, "ok")
  \/ \E data \in TypedData : Typable(data, MaxPushes) /\ OnData(data, "ok")
  \/ \E key \in {"ArrowUp", "ArrowDown"} : OnKey(0, key)
  \/ pushed < MaxPushes /\ OnKey(0, "Enter")

SpecHistory == InitComponent /\ [][NextHistory]_vars

(* ---------------- SpecHistoryCap: the history at its largest ----------- *)
(* The component mounted without window.electronAPI, after the commands a  *)
(* and aa have been entered in turn until the history is one command short *)
(* of maxHistorySize; then two letters and Enter.                          *)
Filled(n) == [i \in 1..n |-> IF i % 2 = 1 THEN <<"a">> ELSE <<"a", "a">>]

InitHistoryCap ==
  /\ InitManager({"linux"})
  /\ apiAvailable = FALSE
  /\ terminal = "xterm"
  /\ terminalId = 0
  /\ commandHistory = Filled(maxHistorySize - 1)
  /\ historyIndex = -1
  /\ currentCommand = <<>>
  /\ recoveryStatus = ""
  /\ errorMessage = ""
  /\ isInDemoMode = TRUE
  /\ pushed = maxHistorySize - 1

NextHistoryCap ==
  \/ \E data \in {"a", "b", "\r"} :
       Typable(data, maxHistorySize - 1 + MaxCapPushes) /\ OnData(data, "ok")
  \/ pushed < maxHistorySize - 1 + MaxCapPushes /\ OnKey(0, "Enter")

SpecHistoryCap == InitHistoryCap /\ [][NextHistoryCap]_vars

(* ---------------- SpecComponent: the component and the main process --- *)
(* The component mounted with and without window.electronAPI, every        *)
(* outcome of its requests, the notifications of the main process for its  *)
(* own terminal id and for another one, the shortcuts, and its unmounting. *)
NotifiedIds == {1, 2}

NextComponent ==
  \/ \E outcome \in {"ok"} \cup CreateFailures : Mounted(1, outcome)
  \/ \E data \in {"a", "\r"}, outcome \in {"ok"} \cup IpcFailures :
       Typable(data, MaxPushes) /\ OnData(data, outcome)
  \/ \E key \in {"c", "l"} : OnKey(1, key)
  \/ \E outcome \in {"ok"} \cup IpcFailures : OnResize(outcome)
  \/ \E id \in NotifiedIds, status \in {"recovering", "recovered", "disabled"} :
       OnRecovery(id, status)
  \/ \E id \in NotifiedIds : OnTerminalData(id, "ls\r")
  \/ \E id \in NotifiedIds, code \in {0, 1} : OnTerminalExit(id, code)
  \/ \E outcome \in {"ok", "timeout"} : BeforeUnmount(outcome)

SpecComponent == InitComponent /\ [][NextComponent]_vars

(* ================= properties ================= *)
(* A step is identified by result', which names the handler that ran and   *)
(* its arguments, and by calls', the calls that handler made.              *)

(* the handler of this step made the call op for session id *)
Made(op, id) == \E i \in DOMAIN calls : calls[i].op = op /\ calls[i].id = id

(* the handler of this step spawned a process for session id *)
Spawned(id) ==
  \E i \in DOMAIN calls :
    calls[i].op = "spawn" /\ calls[i].id = id /\ calls[i].ev = "ok"

(* a kill raised in the handler of this step *)
KillRaised == \E i \in DOMAIN calls : calls[i].op = "kill" /\ calls[i].ev = "throws"

(* the crashes of session id that lie within the window at instant t *)
RecentCrashes(id, t) ==
  IF id \in DOMAIN crashHistory
    THEN Cardinality({i \in DOMAIN crashHistory[id] :
                       crashHistory[id][i] > t - crashTimeWindow})
    ELSE 0

(* this step handles an unexpected exit of session id: a non-zero, non-null *)
(* exit code or an 'error' event of a process whose crash listeners are on  *)
UnexpectedExit(id) ==
  /\ id \in DOMAIN terminals
  /\ result'.op \in {"exit", "error"}
  /\ result'.arg.id = id
  /\ result'.arg.pid \in DOMAIN procs
  /\ procs[result'.arg.pid].crashL
  /\ result'.op = "exit" => result'.arg.code \notin {0, NullCode}

\* C1: once the status of a session is disabled it stays disabled for as long
\* as its record exists: no later step makes it recovering or active,
\* schedules a recovery attempt for the id, or spawns a process for the id.
C1_DisabledIsTerminal ==
  [][\A id \in DOMAIN terminals :
       (terminals[id].status = "disabled" /\ id \in DOMAIN terminals')
         => /\ terminals'[id].status = "disabled"
            /\ ~Made("setTimeout", id)'
            /\ ~Spawned(id)']_vars

\* C2: when an unexpected exit is handled for a session whose crashes within
\* the window, counting this one, have reached maxCrashesBeforeDisable, the
\* status becomes disabled and no recovery attempt is scheduled; and no
\* process is ever spawned again for an id the crash-loop breaker disabled.
C2_CrashLoopDisables ==
  [][/\ \A id \in DOMAIN terminals :
          (UnexpectedExit(id)
             /\ RecentCrashes(id, now) + 1 >= maxCrashesBeforeDisable)
            => /\ id \in loopDisabled'
               /\ id \in DOMAIN terminals' => terminals'[id].status = "disabled"
               /\ ~Made("setTimeout", id)'
               /\ ~Spawned(id)'
     /\ \A id \in loopDisabled : ~Spawned(id)']_vars

\* C3: a non-zero exit of the process of an active session that is not in a
\* crash loop makes the status recovering; and when the recovery attempt
\* scheduled by that exit runs, the session still being in the store and
\* never disabled, and its respawn succeeds, the status is active, crashCount
\* is one more than before the crash, and the record holds a new handle
\* spawned from the stored config.
C3_RecoveryRestoresActive ==
  [][/\ \A id \in DOMAIN terminals :
          (/\ UnexpectedExit(id)
           /\ result'.op = "exit"
           /\ terminals[id].status = "active"
           /\ terminals[id].process = result'.arg.pid
           /\ RecentCrashes(id, now) + 1 < maxCrashesBeforeDisable)
            => /\ id \in DOMAIN terminals'
               /\ terminals'[id].status = "recovering"
               /\ Made("setTimeout", id)'
     /\ \A id \in DOMAIN terminals :
          (/\ result'.op = "timer"
           /\ timers # <<>>
           /\ Head(timers).id = id
           /\ Head(timers).st = "active"
           /\ Head(timers).code \notin {0, NullCode, -1}
           /\ terminals[id].status # "disabled"
           /\ id \notin loopDisabled
           /\ Spawned(id)')
            => LET t == terminals'[id]
               IN /\ t.status = "active"
                  /\ t.crashCount = Head(timers).cc + 1
                  /\ t.process \notin DOMAIN procs
                  /\ t.process \in DOMAIN procs'
                  /\ procs'[t.process].state = "running"
                  /\ procs'[t.process].config = terminals[id].config
                  /\ t.config = terminals[id].config]_vars

\* C4: for every session in the store, in any status and after any number of
\* recoveries, a zero exit of the live process its record holds removes the
\* record, records no crash and schedules no recovery (a kill that raises
\* set aside), after which a write to the id fails as unknown.
C4_ZeroExitRemoves ==
  [][\A id \in DOMAIN terminals :
       (/\ result'.op = "exit"
        /\ result'.arg.code = 0
        /\ result'.arg.pid = terminals[id].process
        /\ result'.arg.pid \in DOMAIN procs
        /\ procs[result'.arg.pid].state = "running"
        /\ ~KillRaised')
         => /\ id \notin DOMAIN terminals'
            /\ crashHistory' = crashHistory
            /\ ~Made("setTimeout", id)']_vars

(* the last call made by the handler of this step *)
LastCall == calls[Len(calls)]

\* C5: when the delayed recovery callback fires for an id whose record is
\* gone or whose status is disabled, it makes no call at all (no spawn, no
\* kill, no notification) and changes neither the session store, nor the
\* crash history, nor any process handle.
C5_StaleTimerIsNoOp ==
  [][(/\ result'.op = "timer"
      /\ timers # <<>>
      /\ \/ Head(timers).id \notin DOMAIN terminals
         \/ terminals[Head(timers).id].status = "disabled")
       => /\ calls' = <<>>
          /\ result'.kind = "callback"
          /\ terminals' = terminals
          /\ crashHistory' = crashHistory
          /\ procs' = procs
          /\ nextPid' = nextPid]_vars

(* the recovery callback has just fired for a session that was created and *)
(* destroyed while the attempt was pending                                  *)
C5_Witness ==
  /\ result.op = "timer"
  /\ result.arg.id \in 1..(nextId - 1)
  /\ result.arg.id \notin DOMAIN terminals
  /\ calls = <<>>

\* C6: when the respawn of a recovery attempt throws, the record stays in the
\* store with status disabled and its crashCount unchanged, and, when the
\* sink of the session is live, the last thing the attempt does is push the
\* recovery notification with status disabled for that id.
C6_FailedRespawnDisables ==
  [][\A id \in DOMAIN terminals :
       (/\ result'.op = "timer"
        /\ result'.arg.id = id
        /\ \E i \in DOMAIN calls' :
             calls'[i].op = "spawn" /\ calls'[i].ev # "ok")
         => /\ id \in DOMAIN terminals'
            /\ terminals'[id].status = "disabled"
            /\ terminals'[id].crashCount = terminals[id].crashCount
            /\ (/\ terminals[id].eventSender # NoSender
                /\ ~sinkDestroyed[terminals[id].eventSender])
                 => LastCall' = Call("send", 0, terminals[id].eventSender, id,
                                     IPC_RECOVERY, "disabled", 0, 0)]_vars

(* a respawn has just thrown for a session that had recovered once before *)
C6_Witness ==
  /\ result.op = "timer"
  /\ result.arg.id \in DOMAIN terminals
  /\ \E i \in DOMAIN calls : calls[i].op = "spawn" /\ calls[i].ev = "ENOENT"
  /\ LastCall.op = "send" /\ LastCall.s = "disabled"
  /\ terminals[result.arg.id].status = "disabled"
  /\ terminals[result.arg.id].crashCount = 1

(* the sequence seq without the element x *)
RECURSIVE Without(_, _)
Without(seq, x) ==
  IF seq = <<>> THEN <<>>
  ELSE (IF Head(seq) = x THEN <<>> ELSE <<Head(seq)>>) \o Without(Tail(seq), x)

(* the candidates of a creation: the requested shell if given, then the     *)
(* platform fallback list without the requested shell                       *)
Candidates(requested) ==
  IF requested = "" THEN getShellFallbacks(platform)
  ELSE <<requested>> \o Without(getShellFallbacks(platform), requested)

\* C7: creation with fallback spawns the candidates in the order [requested
\* shell if given, then the platform fallback list without it], each at most
\* once, only the last spawn possibly succeeding; and when a spawn succeeds
\* the store gains exactly one record, with status active, crashCount 0,
\* config.shell the shell that succeeded and the spawned handle, and the
\* request returns the id of that record.
C7_FallbackOrderFirstSuccess ==
  [][result'.op = "create"
       => LET cand == Candidates(result'.arg.options.shell)
              n == Len(calls')
              id == result'.id
          IN /\ n \in 1..Len(cand)
             /\ \A i \in 1..n : calls'[i].op = "spawn" /\ calls'[i].s = cand[i]
             /\ \A i, j \in 1..n : i # j => calls'[i].s # calls'[j].s
             /\ \A i \in 1..(n - 1) : calls'[i].ev # "ok"
             /\ calls'[n].ev = "ok"
                  => /\ result'.kind = "return"
                     /\ result'.success
                     /\ id \notin DOMAIN terminals
                     /\ DOMAIN terminals' = DOMAIN terminals \cup {id}
                     /\ \A k \in DOMAIN terminals : terminals'[k] = terminals[k]
                     /\ terminals'[id].status = "active"
                     /\ terminals'[id].crashCount = 0
                     /\ terminals'[id].config.shell = calls'[n].s
                     /\ terminals'[id].process = calls'[n].pid]_vars

(* a creation with a requested shell that is also in the fallback list has *)
(* just succeeded on its last candidate                                     *)
C7_Witness ==
  /\ result.op = "create"
  /\ result.success
  /\ result.arg.options.shell = "/bin/sh"
  /\ platform = "linux"
  /\ Len(calls) = 3
  /\ calls[3].s = "/bin/dash"
  /\ terminals[result.id].config.shell = "/bin/dash"

\* C8: during creation with fallback a permission-denied (EACCES) spawn error
\* ends the creation at once: that spawn is the last one made, the request
\* fails with the permission error, and the session store is unchanged.
C8_PermissionDeniedAborts ==
  [][(/\ result'.op = "create"
      /\ \E i \in DOMAIN calls' : calls'[i].ev = "EACCES")
       => /\ LastCall'.ev = "EACCES"
          /\ \A i \in 1..(Len(calls') - 1) : calls'[i].ev # "EACCES"
          /\ result'.kind = "return"
          /\ ~result'.success
          /\ result'.error =
               Err("Terminal creation failed: Permission denied. Please check shell permissions.",
                   0, <<>>)
          /\ terminals' = terminals]_vars

(* a creation has just been denied on its second candidate, with a later   *)
(* candidate left                                                           *)
C8_Witness ==
  /\ result.op = "create"
  /\ Len(calls) = 2
  /\ calls[1].ev = "ENOENT"
  /\ calls[2].ev = "EACCES"
  /\ Len(Candidates(result.arg.options.shell)) > 2
  /\ ~result.success

(* in this step every candidate of the creation was spawned and failed     *)
(* with an error other than permission denied                              *)
AllCandidatesFailed ==
  /\ result'.op = "create"
  /\ Len(calls') = Len(Candidates(result'.arg.options.shell))
  /\ \A i \in DOMAIN calls' :
       calls'[i].op = "spawn" /\ calls'[i].ev \notin {"ok", "EACCES"}

(* the message of the error of the last spawn of this step *)
LastFailureMessage == SpawnError(LastCall.s, LastCall.ev).message

\* C9 (as stated): when every candidate fails with a non-permission error the
\* request returns {success: false, error} with the aggregate error carrying
\* the message of the last failure, and the session store is unchanged.
C9_AggregateCarriesLastMessage ==
  [][AllCandidatesFailed
       => /\ result'.kind = "return"
          /\ ~result'.success
          /\ result'.error =
               Err("Failed to create terminal with any available shell: ", 0,
                   LastFailureMessage')
          /\ terminals' = terminals]_vars

\* C9 (amended): when every candidate fails with a non-permission error the
\* request returns {success: false, error} with the aggregate error carrying
\* the message of the last failure, or "Unknown error" when that failure
\* has no message, and the session store is unchanged.
C9_AggregateCarriesLastMessageOrUnknown ==
  [][AllCandidatesFailed
       => /\ result'.kind = "return"
          /\ ~result'.success
          /\ result'.error =
               Err("Failed to create terminal with any available shell: ", 0,
                   IF LastFailureMessage' # <<>> THEN LastFailureMessage'
                   ELSE <<"Unknown error">>)
          /\ terminals' = terminals]_vars

(* a creation has just failed on all three candidates, the first and the   *)
(* last with different errors                                               *)
C9_Witness ==
  /\ result.op = "create"
  /\ ~result.success
  /\ Len(calls) = 3
  /\ calls[1].ev = ""
  /\ calls[3].ev = "ENOENT"
  /\ result.error.detail = <<"spawn", calls[3].s, "ENOENT">>

\* C10: a write of data d to a session in the store, whatever its status,
\* makes exactly one call: write(d) on the handle held by the record of that
\* session, which no other record holds; it changes no record and succeeds.
C10_WriteForwardsOnce ==
  [][\A id \in DOMAIN terminals :
       (result'.op = "write" /\ result'.arg.id = id)
         => /\ calls' = <<Call("write", terminals[id].process, 0, id, "",
                               result'.arg.data, 0, 0)>>
            /\ \A o \in DOMAIN terminals \ {id} :
                 terminals[o].process # terminals[id].process
            /\ terminals' = terminals
            /\ result'.kind = "return"
            /\ result'.success]_vars

(* a write has just been forwarded to a disabled session while another     *)
(* session is in the store                                                  *)
C10_Witness ==
  /\ result.op = "write"
  /\ result.success
  /\ result.arg.id \in DOMAIN terminals
  /\ terminals[result.arg.id].status = "disabled"
  /\ Cardinality(DOMAIN terminals) = 2
  /\ Len(calls) = 1

\* C11: a write or a resize addressed to an id that is not in the session
\* store is answered {success: false, error} with the error naming that id;
\* no call is made on any process handle and the session store, the crash
\* history and the process handles are unchanged.
C11_UnknownIdIsError ==
  [][(/\ result'.op \in {"write", "resize"}
      /\ result'.arg.id \notin DOMAIN terminals)
       => /\ result'.kind = "return"
          /\ ~result'.success
          /\ result'.error = Err("Terminal not found: ", result'.arg.id, <<>>)
          /\ calls' = <<>>
          /\ terminals' = terminals
          /\ crashHistory' = crashHistory
          /\ procs' = procs]_vars

(* a resize has just been refused for the id of a session that was removed, *)
(* while another session is in the store                                    *)
C11_Witness ==
  /\ result.op = "resize"
  /\ ~result.success
  /\ result.arg.id \in 1..(nextId - 1)
  /\ result.arg.id \notin DOMAIN terminals
  /\ result.error.id = result.arg.id
  /\ terminals # <<>>

\* C12: a destroy of an id that is not in the session store (never created
\* or already destroyed) reports success and does nothing: it makes no call
\* on any process handle and leaves every record, the crash history and the
\* process handles unchanged.
C12_DestroyUnknownIsNoOp ==
  [][(/\ result'.op = "destroy"
      /\ result'.arg.id \notin DOMAIN terminals)
       => /\ result'.kind = "return"
          /\ result'.success
          /\ calls' = <<>>
          /\ terminals' = terminals
          /\ crashHistory' = crashHistory
          /\ procs' = procs]_vars

(* a destroy has just been answered for the id of a session that was       *)
(* already removed, while another session is in the store                  *)
C12_Witness ==
  /\ result.op = "destroy"
  /\ result.success
  /\ result.arg.id \in 1..(nextId - 1)
  /\ result.arg.id \notin DOMAIN terminals
  /\ calls = <<>>
  /\ terminals # <<>>

\* C13: a destroy of an id that is in the session store removes the record
\* and reports success, in any status, also when kill raises because the
\* process is already dead.
C13_DestroyAlwaysRemoves ==
  [][\A id \in DOMAIN terminals :
       (result'.op = "destroy" /\ result'.arg.id = id)
         => /\ id \notin DOMAIN terminals'
            /\ result'.kind = "return"
            /\ result'.success]_vars

(* the number of calls op made on handle pid by the handler of this step *)
CallsOn(op, pid) ==
  Cardinality({i \in DOMAIN calls : calls[i].op = op /\ calls[i].pid = pid})

\* C14: cleanup() on a manager holding N sessions, in any mix of statuses,
\* leaves the session store empty, having called removeAllListeners exactly
\* once and kill exactly once on each of the N handles the records held, and
\* nothing else.
C14_CleanupEmptiesStore ==
  [][result'.op = "cleanup"
       => /\ terminals' = <<>>
          /\ result'.kind = "callback"
          /\ \A pid \in HeldBy(DOMAIN terminals) :
               /\ CallsOn("removeAllListeners", pid)' = 1
               /\ CallsOn("kill", pid)' = 1
          /\ Len(calls') = 2 * Cardinality(DOMAIN terminals)]_vars

\* C15: cleanup() on an empty session store makes no call, throws nothing
\* and leaves the session store, the crash history, the process handles and
\* the pending timers unchanged.
C15_CleanupIdempotent ==
  [][(result'.op = "cleanup" /\ terminals = <<>>)
       => /\ calls' = <<>>
          /\ result'.kind = "callback"
          /\ terminals' = terminals
          /\ crashHistory' = crashHistory
          /\ procs' = procs
          /\ timers' = timers]_vars

(* cleanup() has just run on a store that sessions had been in and that    *)
(* was empty already, a recovery attempt still pending                     *)
C15_Witness ==
  /\ result.op = "cleanup"
  /\ result.kind = "callback"
  /\ calls = <<>>
  /\ terminals = <<>>
  /\ nextId > 1
  /\ timers # <<>>

(* every timestamp recordCrash was called at for id, oldest first *)
LogOf(id) == IF id \in DOMAIN crashLog THEN crashLog[id] ELSE <<>>

\* C16: isInCrashLoop(id), called right after a sequence of recordCrash
\* calls, returns true when the last maxCrashesBeforeDisable crashes recorded
\* for id lie within one crashTimeWindow, false when fewer were recorded for
\* id, and false when the last maxCrashesBeforeDisable crashes recorded for
\* id are spread over more than the window; crashes of other ids do not count.
C16_CrashLoopThreshold ==
  result.op = "isInCrashLoop"
    => LET L == LogOf(result.arg.id)
           n == Len(L)
           k == maxCrashesBeforeDisable
       IN /\ (n >= k /\ now = L[n] /\ L[n] - L[n - k + 1] < crashTimeWindow)
               => result.success
          /\ n < k => ~result.success
          /\ (n >= k /\ L[n] - L[n - k + 1] > crashTimeWindow)
               => ~result.success

(* isInCrashLoop has just returned true for an id with exactly five crashes, *)
(* recorded at different instants within one window, another id having a    *)
(* crash of its own                                                          *)
C16_Witness ==
  /\ result.op = "isInCrashLoop"
  /\ result.success
  /\ Len(LogOf(result.arg.id)) = maxCrashesBeforeDisable
  /\ now = LogOf(result.arg.id)[maxCrashesBeforeDisable]
  /\ LogOf(result.arg.id)[1] < now
  /\ \E o \in DOMAIN crashLog : o # result.arg.id

(* the crashes recorded for id at or after instant t / after instant t *)
LoggedFrom(id, t) ==
  Cardinality({i \in DOMAIN LogOf(id) : LogOf(id)[i] >= t})
LoggedAfter(id, t) ==
  Cardinality({i \in DOMAIN LogOf(id) : LogOf(id)[i] > t})

\* C17: at any time t isInCrashLoop(id) returns true iff the number of
\* crashes recorded for id inside the window ending at t is at least
\* maxCrashesBeforeDisable (a crash exactly one window old counting either
\* way), also when no recordCrash call was made since those crashes.
C17_PrunedOnRead ==
  result.op = "isInCrashLoop"
    => /\ LoggedAfter(result.arg.id, now - crashTimeWindow)
            >= maxCrashesBeforeDisable => result.success
       /\ LoggedFrom(result.arg.id, now - crashTimeWindow)
            < maxCrashesBeforeDisable => ~result.success

\* C18: in every state the crash tracker holds no history for an id that
\* is not in the session store: the entry of a session goes when the session
\* is destroyed (by a destroy request, a zero exit or cleanup).
C18_HistoryRemovedOnDestroy ==
  \A id \in DOMAIN crashHistory : id \in DOMAIN terminals

\* C19: every data event and every exit event of the live process that the
\* record of a session holds, a process spawned by a recovery attempt
\* included, is pushed to the sink of the session, while that sink is live,
\* as terminal:data {id, data} or terminal:exit {id, code}.
C19_EventsReachSink ==
  [][\A id \in DOMAIN terminals :
       (/\ result'.op \in {"data", "exit"}
        /\ result'.arg.pid = terminals[id].process
        /\ result'.arg.pid \in DOMAIN procs
        /\ procs[result'.arg.pid].state = "running"
        /\ terminals[id].eventSender # NoSender
        /\ ~sinkDestroyed[terminals[id].eventSender])
         => \E i \in DOMAIN calls' :
              /\ calls'[i].op = "send"
              /\ calls'[i].sink = terminals[id].eventSender
              /\ calls'[i].id = id
              /\ IF result'.op = "data"
                    THEN calls'[i].ev = IPC_DATA /\ calls'[i].s = result'.arg.data
                    ELSE calls'[i].ev = IPC_EXIT /\ calls'[i].a = result'.arg.code]_vars

\* C20: when an unexpected exit of a session that is not in a crash loop is
\* handled, the status becomes recovering and, the sink of the session being
\* live, the recovery notification with status recovering is pushed for the
\* id by the handler of that exit, before the recovery delay runs.
C20_RecoveringNotifiedAtCrash ==
  [][\A id \in DOMAIN terminals :
       (/\ UnexpectedExit(id)
        /\ RecentCrashes(id, now) + 1 < maxCrashesBeforeDisable
        /\ terminals[id].eventSender # NoSender
        /\ ~sinkDestroyed[terminals[id].eventSender])
         => /\ id \in DOMAIN terminals'
            /\ terminals'[id].status = "recovering"
            /\ \E i \in DOMAIN calls' :
                 /\ calls'[i].op = "send"
                 /\ calls'[i].id = id
                 /\ calls'[i].ev = IPC_RECOVERY
                 /\ calls'[i].s = "recovering"]_vars

\* C21: a push (data, exit or recovery notification) to a sink that reports
\* itself destroyed is skipped: no handler calls send on a destroyed sink,
\* and a process callback or recovery callback that runs while the sink is
\* destroyed lets no exception out other than one raised by kill.
C21_DestroyedSinkSkipped ==
  [][/\ \A i \in DOMAIN calls' :
          calls'[i].op = "send" => ~sinkDestroyed[calls'[i].sink]
     /\ (/\ result'.op \in {"data", "exit", "error", "timer"}
         /\ \E sink \in Sinks : sinkDestroyed[sink]
         /\ result'.kind = "uncaught")
          => KillRaised']_vars

(* a data event has just run the listener of a session whose sink is       *)
(* destroyed, and nothing was sent                                         *)
C21_Witness ==
  /\ result.op = "data"
  /\ result.kind = "callback"
  /\ result.arg.pid \in DOMAIN procs
  /\ procs[result.arg.pid].ipcL # NoSender
  /\ sinkDestroyed[procs[result.arg.pid].ipcL]
  /\ calls = <<>>

\* C22: a write, resize or destroy request whose message is absent or has
\* no id is answered {success: false, error} with the error of the message
\* validation; no call is made on any process handle and the session store,
\* the crash history and the process handles are unchanged.
C22_MalformedRejected ==
  [][(/\ result'.op \in {"write", "resize", "destroy"}
      /\ result'.arg.id = 0)
       => /\ result'.kind = "return"
          /\ ~result'.success
          /\ result'.error \in
               {Err("Invalid message: message is required", 0, <<>>),
                Err("Invalid message: missing id", 0, <<>>)}
          /\ calls' = <<>>
          /\ terminals' = terminals
          /\ crashHistory' = crashHistory
          /\ procs' = procs]_vars

(* a destroy without id has just been refused while two sessions are in    *)
(* the store                                                               *)
C22_Witness ==
  /\ result.op = "destroy"
  /\ result.arg.id = 0
  /\ ~result.success
  /\ result.error.text = "Invalid message: missing id"
  /\ Cardinality(DOMAIN terminals) = 2

\* C23: for every platform identifier (win32, darwin, linux and any other
\* value) the first element of the fallback shell list is the shell that
\* default-shell detection returns for that platform.
C23_FirstFallbackIsDefault ==
  /\ getShellFallbacks(platform)[1] = detectShell(platform)
  /\ \A p \in Platforms : getShellFallbacks(p)[1] = detectShell(p)

(* on a platform the code does not name, a creation without requested      *)
(* shell has just succeeded on its first candidate, the detected shell     *)
C23_Witness ==
  /\ platform \notin {"win32", "darwin", "linux"}
  /\ result.op = "create"
  /\ result.success
  /\ result.arg.options.shell = ""
  /\ Len(calls) = 1
  /\ calls[1].s = detectShell(platform)

(* the handles pty.spawn has returned so far *)
Handles == 1..(nextPid - 1)

\* C24: in every state every id in the session store has a process handle
\* that pty.spawn returned, a config with shell, cwd, cols, rows and env,
\* and a status that is active, recovering or disabled.
C24_RecordWellFormed ==
  \A id \in DOMAIN terminals :
    /\ terminals[id].process \in Handles
    /\ DOMAIN terminals[id].config = {"shell", "cwd", "cols", "rows", "env"}
    /\ terminals[id].config.shell # ""
    /\ terminals[id].status \in {"active", "recovering", "disabled"}

(* a session sits in the store disabled after a respawn that threw, with   *)
(* the handle of its second process                                        *)
C24_Witness ==
  /\ result.op = "timer"
  /\ \E id \in DOMAIN terminals :
       /\ terminals[id].status = "disabled"
       /\ terminals[id].process = 2
       /\ \E i \in DOMAIN calls : calls[i].op = "spawn" /\ calls[i].ev = "ENOENT"

\* C25: in every state every process handle that is still running is held
\* by exactly one session record, and no two records hold the same handle:
\* a handle replaced by recovery or dropped by destroy is not left running.
C25_HandleExclusivelyOwned ==
  /\ \A pid \in DOMAIN procs :
       procs[pid].state = "running"
         => Cardinality({id \in DOMAIN terminals :
                          terminals[id].process = pid}) = 1
  /\ \A a, b \in DOMAIN terminals :
       a # b => terminals[a].process # terminals[b].process

(* a recovery has just killed the old handle of one session and spawned a  *)
(* new one, while another session is in the store                          *)
C25_Witness ==
  /\ result.op = "timer"
  /\ Cardinality(DOMAIN terminals) = 2
  /\ \E id \in DOMAIN terminals :
       /\ Spawned(id)
       /\ \E i \in DOMAIN calls :
            /\ calls[i].op = "kill"
            /\ calls[i].id = id
            /\ calls[i].pid # terminals[id].process

(* the spawn calls the handler of this step made for session id *)
SpawnCalls(id) == {i \in DOMAIN calls : calls[i].op = "spawn" /\ calls[i].id = id}

\* C26: the config of a session (shell, cwd, cols, rows, env) is the same
\* after every step in which the session stays in the store, whatever the
\* step is (write, resize, crash handling, recovery); and a recovery attempt
\* calls pty.spawn at most once, with the shell, cols and rows of that
\* config, the process it obtains running under that config: no other
\* candidate shell is tried, also when that spawn throws.
C26_ConfigFixedAtCreation ==
  [][\A id \in DOMAIN terminals :
       /\ id \in DOMAIN terminals' => terminals'[id].config = terminals[id].config
       /\ (result'.op = "timer" /\ result'.arg.id = id)
            => /\ Cardinality(SpawnCalls(id)') <= 1
               /\ \A i \in SpawnCalls(id)' :
                    /\ calls'[i].s = terminals[id].config.shell
                    /\ calls'[i].a = terminals[id].config.cols
                    /\ calls'[i].b = terminals[id].config.rows
               /\ Spawned(id)'
                    => procs'[terminals'[id].process].config = terminals[id].config]_vars

(* a session created with a requested shell, size and directory has just   *)
(* been respawned by a recovery attempt                                    *)
C26_Witness ==
  /\ result.op = "timer"
  /\ \E id \in DOMAIN terminals :
       /\ Spawned(id)
       /\ terminals[id].config.shell = "/bin/sh"
       /\ terminals[id].config.cols = 120
       /\ terminals[id].config.cwd = "/tmp"
       /\ terminals[id].process = 2

(* a session whose preferred shell failed to spawn at creation has just    *)
(* failed its recovery respawn on the fallback shell it was created with   *)
C26_WitnessNoFallback ==
  /\ result.op = "timer"
  /\ \E id \in DOMAIN terminals :
       /\ terminals[id].status = "disabled"
       /\ terminals[id].config.shell # detectShell(platform)
       /\ Cardinality(SpawnCalls(id)) = 1

\* C27: the crashCount of a session is 0 when the session is created, and a
\* step changes it only by adding 1, exactly when the step is a recovery
\* attempt that respawned the process of the session: no other step changes
\* it, so it never decreases and counts the respawns of the session.
C27_CrashCountCountsRespawns ==
  [][/\ \A id \in DOMAIN terminals' \ DOMAIN terminals :
          terminals'[id].crashCount = 0
     /\ \A id \in DOMAIN terminals \cap DOMAIN terminals' :
          terminals'[id].crashCount =
            terminals[id].crashCount
              + (IF result'.op = "timer" /\ Spawned(id)' THEN 1 ELSE 0)]_vars

(* the second respawn of a session has just been counted *)
C27_Witness ==
  /\ result.op = "timer"
  /\ \E id \in DOMAIN terminals :
       Spawned(id) /\ terminals[id].crashCount = 2

(* session id has the same record, the same process and the same crash     *)
(* history after the step as before it                                     *)
Untouched(id) ==
  /\ id \in DOMAIN terminals => /\ id \in DOMAIN terminals'
                                /\ terminals'[id] = terminals[id]
                                /\ terminals[id].process \in DOMAIN procs'
                                /\ procs'[terminals[id].process]
                                     = procs[terminals[id].process]
  /\ id \notin DOMAIN terminals => id \notin DOMAIN terminals'
  /\ id \in DOMAIN crashHistory => /\ id \in DOMAIN crashHistory'
                                   /\ crashHistory'[id] = crashHistory[id]
  /\ id \notin DOMAIN crashHistory => id \notin DOMAIN crashHistory'

\* C28: a step addressed to one session id (a write, resize or destroy
\* request, a data, exit or error event of its process, with the crash
\* recording it does, or a recovery attempt) leaves the record, the process
\* handle with its state, the status and the crash history of every other
\* session id as they were.
C28_OtherSessionsUntouched ==
  [][result'.op \in {"write", "resize", "destroy", "data", "exit", "error", "timer"}
       => \A id \in (DOMAIN terminals \cup DOMAIN crashHistory) \ {result'.arg.id} :
            Untouched(id)]_vars

(* one of two sessions, the other one having crashed before, has just been *)
(* destroyed by a request                                                  *)
C28_Witness ==
  /\ result.op = "destroy"
  /\ result.success
  /\ result.arg.id \notin DOMAIN terminals
  /\ Made("kill", result.arg.id)
  /\ \E id \in DOMAIN terminals : id # result.arg.id /\ id \in DOMAIN crashHistory

\* C29: a crash of a session schedules a recovery attempt only when at most
\* maxCrashesBeforeDisable - 1 (4) of all the crashes ever recorded for the
\* session, this one included, lie in the crash time window that ends at the
\* crash (the instants t with now - t < crashTimeWindow); the crash that is
\* the fifth or a later one in that window disables the session and
\* schedules nothing.  So the crashes of one window schedule at most 4
\* attempts.
C29_RecoveryBounded ==
  [][\A id \in DOMAIN terminals :
       /\ Made("setTimeout", id)'
            => LoggedAfter(id, now - crashTimeWindow)' <= maxCrashesBeforeDisable - 1
       /\ (UnexpectedExit(id)
             /\ LoggedAfter(id, now - crashTimeWindow)' >= maxCrashesBeforeDisable)
            => /\ ~Made("setTimeout", id)'
               /\ id \in DOMAIN terminals'
               /\ terminals'[id].status = "disabled"]_vars

(* the fourth crash of a window has just scheduled a recovery attempt *)
C29_Witness ==
  /\ result.op \in {"exit", "error"}
  /\ Made("setTimeout", result.arg.id)
  /\ LoggedAfter(result.arg.id, now - crashTimeWindow) = maxCrashesBeforeDisable - 1

(* the fifth crash of a window has just disabled the session *)
C29_WitnessDisabled ==
  /\ result.op \in {"exit", "error"}
  /\ result.arg.id \in DOMAIN terminals
  /\ terminals[result.arg.id].status = "disabled"
  /\ ~Made("setTimeout", result.arg.id)
  /\ LoggedAfter(result.arg.id, now - crashTimeWindow) = maxCrashesBeforeDisable

\* C30: whenever a recovery callback terminates or respawns the process of a
\* session, the status of that session is recovering: the process of an
\* active session is never killed by a recovery timer.
C30_RecoveryOnlyWhenRecovering ==
  [][\A id \in DOMAIN terminals :
       (/\ result'.op = "timer"
        /\ result'.arg.id = id
        /\ Made("kill", id)' \/ Made("spawn", id)')
         => terminals[id].status = "recovering"]_vars

(* a session that crashed twice, by an error and an exit of one process,   *)
(* has just been respawned for the second time: the recovery timer killed  *)
(* the running process of an active session                                *)
C30_Witness ==
  /\ result.op = "timer"
  /\ \E id \in DOMAIN terminals :
       /\ Spawned(id)
       /\ terminals[id].crashCount = 2
       /\ Len(LogOf(id)) = 2

\* C31: a non-zero exit of a process for which an 'error' event has already
\* been handled as a crash adds no further timestamp to the crash history of
\* its session: one death, one timestamp.
C31_OneTimestampPerDeath ==
  [][\A id \in DOMAIN terminals :
       (/\ UnexpectedExit(id)
        /\ result'.op = "exit"
        /\ procs[result'.arg.pid].errs > 0)
         => /\ Len(LogOf(id))' = Len(LogOf(id))
            /\ id \in DOMAIN crashHistory'
            /\ crashHistory'[id] = crashHistory[id]]_vars

(* the first process of a session has died once, with an 'error' and an    *)
(* exit, and the crash history of the session holds two timestamps         *)
C31_Witness ==
  /\ result.op = "exit"
  /\ result.arg.pid = 1
  /\ result.arg.code = 1
  /\ result.arg.id \in DOMAIN crashHistory
  /\ Len(crashHistory[result.arg.id]) = 2
  /\ nextPid = 2

(* the session of SpecRecovery is recovering *)
Recovering == \E id \in DOMAIN terminals : terminals[id].status = "recovering"

\* C32: with the delayed recovery callbacks eventually run, a session whose
\* status is recovering eventually is active or disabled, or its record is
\* removed from the store.
C32_RecoveringEnds == Recovering ~> ~Recovering

(* the recovery callback of a recovering session has just run, leaving the *)
(* session active with no callback pending                                 *)
C32_Witness ==
  /\ result.op = "timer"
  /\ timers = <<>>
  /\ \E id \in DOMAIN terminals :
       /\ terminals[id].status = "active"
       /\ terminals[id].crashCount = 1
       /\ Made("kill", id)

\* C33: handleProcessCrash for an id that is not in the session store does
\* nothing: no call is made (no notification, no setTimeout), and the
\* session store, the crash history, the pending recovery callbacks and the
\* processes are as before.
C33_CrashOfUnknownIdIgnored ==
  [][(result'.op = "handleProcessCrash" /\ result'.arg.id \notin DOMAIN terminals)
       => /\ calls' = <<>>
          /\ result'.kind = "callback"
          /\ terminals' = terminals
          /\ crashHistory' = crashHistory
          /\ crashLog' = crashLog
          /\ timers' = timers
          /\ procs' = procs]_vars

(* handleProcessCrash has just run for the id of a session that crashed    *)
(* and was destroyed: its stale crash history is as it was                 *)
C33_Witness ==
  /\ result.op = "handleProcessCrash"
  /\ result.arg.id \notin DOMAIN terminals
  /\ result.arg.id \in DOMAIN crashHistory
  /\ Len(crashHistory[result.arg.id]) = 1
  /\ calls = <<>>

\* C34: an exit event with a null exit code, of the process a session
\* holds, records no crash, schedules no recovery and leaves the record of
\* the session, its status included, as it was: the record stays in the
\* store holding a process handle that has exited.
C34_NullExitIsNeither ==
  [][\A id \in DOMAIN terminals :
       (/\ result'.op = "exit"
        /\ result'.arg.code = NullCode
        /\ result'.arg.id = id
        /\ terminals[id].process = result'.arg.pid)
         => /\ terminals' = terminals
            /\ crashHistory' = crashHistory
            /\ crashLog' = crashLog
            /\ timers' = timers
            /\ ~Made("setTimeout", id)'
            /\ ~Made("kill", id)'
            /\ procs'[result'.arg.pid].state = "exited"]_vars

(* the process of an active session has just exited with a null code: the  *)
(* session is active and holds the exited handle                           *)
C34_Witness ==
  /\ result.op = "exit"
  /\ result.arg.code = NullCode
  /\ result.arg.id \in DOMAIN terminals
  /\ terminals[result.arg.id].status = "active"
  /\ terminals[result.arg.id].process = result.arg.pid
  /\ procs[result.arg.pid].state = "exited"
  /\ result.arg.id \notin DOMAIN crashHistory

(* this step handled Enter: the datum "\r" or "\n" typed, or the Enter key *)
EnterHandled ==
  \/ result'.op = "onData" /\ result'.arg.data \in {"\r", "\n"}
  \/ result'.op = "onKey" /\ result'.arg.data = "Enter" /\ result'.arg.code = 0

\* C35: after every step the command history holds no command that is
\* empty or made of whitespace only, and no two equal commands next to each
\* other; and every step that handles Enter leaves historyIndex -1 and
\* currentCommand empty.
C35_HistoryClean ==
  [][/\ \A i \in DOMAIN commandHistory' : trim(commandHistory'[i]) # <<>>
     /\ \A i \in DOMAIN commandHistory' :
          i > 1 => commandHistory'[i] # commandHistory'[i - 1]
     /\ EnterHandled => historyIndex' = -1 /\ currentCommand' = <<>>]_vars

(* Enter has just been handled for the third command pushed, which equals  *)
(* the first one but not the second                                        *)
C35_Witness ==
  /\ result.op = "onData"
  /\ result.arg.data = "\r"
  /\ commandHistory = << <<"a">>, <<"a", "a">>, <<"a">> >>
  /\ historyIndex = -1
  /\ currentCommand = <<>>

(* Enter is handled in this step for a command that is new: not empty    *)
(* once trimmed and not the last command of the history                  *)
NewCommandEntered ==
  /\ EnterHandled
  /\ trim(currentCommand) # <<>>
  /\ commandHistory # <<>>
       => commandHistory[Len(commandHistory)] # trim(currentCommand)

\* C36: the command history never holds more than maxHistorySize commands;
\* a step that enters a new command leaves the last maxHistorySize commands
\* of the history followed by the new command (all of them when they are
\* fewer), in the same order, the oldest commands being the ones dropped;
\* and no other step changes the history.
C36_HistoryCapped ==
  [][/\ Len(commandHistory') <= maxHistorySize
     /\ ~NewCommandEntered => commandHistory' = commandHistory
     /\ NewCommandEntered
          => LET full == Append(commandHistory, trim(currentCommand))
                 dropped == Len(full) - Len(commandHistory')
             IN /\ Len(commandHistory') =
                     (IF Len(full) > maxHistorySize THEN maxHistorySize
                      ELSE Len(full))
                /\ \A i \in DOMAIN commandHistory' :
                     commandHistory'[i] = full[i + dropped]]_vars

(* Enter has just pushed a command to a history of maxHistorySize commands: *)
(* the history holds maxHistorySize commands, the oldest one gone           *)
C36_Witness ==
  /\ result.op = "onData"
  /\ result.arg.data = "\r"
  /\ pushed = maxHistorySize + 1
  /\ Len(commandHistory) = maxHistorySize
  /\ commandHistory[1] = <<"a", "a">>
  /\ commandHistory[maxHistorySize - 1] # commandHistory[maxHistorySize]

(* this step handled the arrow key with no control key held *)
ArrowHandled(key) ==
  result'.op = "onKey" /\ result'.arg.data = key /\ result'.arg.code = 0

\* C37: with a history that is not empty, ArrowUp from historyIndex -1
\* selects the last command, ArrowUp from an index above 0 selects the one
\* before and ArrowUp from index 0 stays there; ArrowDown from an index
\* below the last selects the next one and ArrowDown from the last index
\* leaves historyIndex -1 and currentCommand empty; and after each of these
\* steps, when historyIndex is 0 or more, currentCommand is the command of
\* the history at historyIndex.
C37_HistoryNavigation ==
  [][commandHistory # <<>>
       => LET last == Len(commandHistory) - 1
          IN /\ ArrowHandled("ArrowUp")
                  => /\ historyIndex = -1 => historyIndex' = last
                     /\ historyIndex > 0 => historyIndex' = historyIndex - 1
                     /\ historyIndex = 0 => historyIndex' = 0
             /\ ArrowHandled("ArrowDown")
                  => /\ (historyIndex >= 0 /\ historyIndex < last)
                          => historyIndex' = historyIndex + 1
                     /\ historyIndex = last
                          => historyIndex' = -1 /\ currentCommand' = <<>>
             /\ (ArrowHandled("ArrowUp") \/ ArrowHandled("ArrowDown"))
                  => /\ commandHistory' = commandHistory
                     /\ historyIndex' >= 0
                          => currentCommand' = commandHistory[historyIndex' + 1]]_vars

(* ArrowUp has just been handled at the first of three commands: the index *)
(* is 0 and the current command is the first command                       *)
C37_Witness ==
  /\ result.op = "onKey"
  /\ result.arg.data = "ArrowUp"
  /\ Len(commandHistory) = 3
  /\ historyIndex = 0
  /\ currentCommand = commandHistory[1]
  /\ Len(calls) = 2

(* ArrowDown has just been handled at the last command: the index is -1    *)
(* and the current command is empty                                        *)
C37_WitnessDown ==
  /\ result.op = "onKey"
  /\ result.arg.data = "ArrowDown"
  /\ Len(commandHistory) = 2
  /\ historyIndex = -1
  /\ currentCommand = <<>>
  /\ Len(calls) = 2

\* C38: in every state historyIndex is -1 or an index of commandHistory,
\* from 0 to its length less one.
C38_HistoryIndexValid ==
  historyIndex = -1 \/ (historyIndex >= 0 /\ historyIndex < Len(commandHistory))

(* ArrowDown has just moved the index to the last of three commands *)
C38_Witness ==
  /\ result.op = "onKey"
  /\ result.arg.data = "ArrowDown"
  /\ Len(commandHistory) = 3
  /\ historyIndex = 2

\* C39: after a recovered or a disabled notification for the terminal id of
\* the component, recoveryStatus is cleared, so that the recovery banner,
\* shown whenever recoveryStatus is set, is not displayed.
C39_BannerOnlyWhileRecovering ==
  [][(/\ result'.op = "onRecovery"
      /\ result'.arg.id = terminalId
      /\ result'.arg.data \in {"recovered", "disabled"})
       => recoveryStatus' = ""]_vars

(* a disabled notification for the terminal id of the component has just   *)
(* been handled and recoveryStatus is set: the banner is displayed         *)
C39_Witness ==
  /\ result.op = "onRecovery"
  /\ result.arg.id = terminalId
  /\ result.arg.data = "disabled"
  /\ recoveryStatus = "disabled"
  /\ errorMessage = "Terminal disabled due to repeated crashes"

(* the write requests the method of this step sent to the main process *)
WritesSent == {i \in DOMAIN calls : calls[i].op = "write"}

\* C40: a step taken in demo mode sends no write request to the main
\* process, whatever the input path is: typed data or the Ctrl+C shortcut.
C40_NoWriteInDemoMode ==
  [][isInDemoMode => WritesSent' = {}]_vars

(* Ctrl+C has just been handled in demo mode, entered when a request       *)
(* failed with a lost connection, and a write request was sent             *)
C40_Witness ==
  /\ result.op = "onKey"
  /\ result.arg.data = "c"
  /\ isInDemoMode
  /\ terminalId # 0
  /\ WritesSent # {}
====
